---- MODULE Spec2Model ----
(***************************************************************************)
(* Model of the CRUD route generator: the response formatter               *)
(* (Api_Response), the structure analyzer (DatabaseAnalyzer) and the list, *)
(* get-by-id, create, update and delete handlers registered by             *)
(* PrismaCrudRouter.route.                                                 *)
(***************************************************************************)
EXTENDS Integers, Sequences, FiniteSets, TLC

VARIABLES
    fmtIn,          \* arguments of the Api_Response.match call being formatted
    fmtOut,         \* what match returned for fmtIn (NoResponse before the call)
    ccIn,           \* arguments of a stand-alone analyzer or processNestedData call
    ccOut,          \* what the call returned (NoCheck before the call)
    cfg,            \* routeOptions of the registered route (immutable after route())
    dbStructure,    \* DatabaseAnalyzer.dbStructure entry of the route's model
    sampleCache,    \* DatabaseAnalyzer._sampleCache entry of the route's model
    pc,             \* position of the request's handler
    awaiting,       \* TRUE while the handler is suspended in the await of step pc
    op,             \* operation of the request in flight: create / update / delete
    data,           \* the handler's local `data` (request body, possibly rewritten)
    result,         \* the handler's local created / updated / deleted (the response payload)
    valid,          \* what the validation hook said: none / valid / invalid
    viol,           \* violations collected by checkConstraints for this request
    warnings,       \* cascade results the handler logged with console.warn
    trace,          \* steps the handler has started, in order
    calls,          \* persistence-engine calls issued for this request, in order
    outstanding,    \* number of awaited calls that have not returned yet
    err,            \* the exception caught by the handler's catch block
    resp,           \* the response sent for the request (NoResponse before)
    served,         \* number of requests answered so far
    changed,        \* store-changing calls of the request in flight that succeeded
    query,          \* the parsed query of the list request in flight
    findArgs,       \* arguments of the findMany / count calls of the list request
    globalErrorHandler, \* PrismaCrudRouter.globalErrorHandler: set or not
    reqs,           \* the concurrent create and update requests: position and locals of each
    table,          \* values of the unique field in the rows the engine holds
    defaultMiddleware, \* PrismaCrudRouter.options.defaultMiddleware
    registered,     \* the app.get / post / put / delete registrations made by route()
    handles,        \* the model handles given to the router, by model key
    structures,     \* DatabaseAnalyzer.dbStructure: structure by model name
    samples,        \* DatabaseAnalyzer._sampleCache: sample record by model name
    analyzed        \* what analyzeDatabaseStructure returned, call by call

vars == <<fmtIn, fmtOut, ccIn, ccOut, cfg, dbStructure, sampleCache, pc, awaiting,
          op, data, result, valid, viol, warnings, trace, calls, outstanding, err, resp, served,
          changed, query, findArgs, globalErrorHandler, reqs, table,
          defaultMiddleware, registered, handles, structures, samples, analyzed>>

fmtVars == <<fmtIn, fmtOut>>
ccVars == <<ccIn, ccOut>>
routeVars == <<cfg, dbStructure, sampleCache, pc, awaiting, op, data, result, valid, viol,
               warnings, trace, calls, outstanding, err, resp, served, changed>>
readVars == <<query, findArgs, globalErrorHandler>>
raceVars == <<reqs, table>>
regVars == <<defaultMiddleware, registered>>
cacheVars == <<handles, structures, samples, analyzed>>

-----------------------------------------------------------------------------
(* JavaScript values.  Every value is a record of the same shape so that   *)
(* any two of them can be compared: kind is the typeof / Array.isArray     *)
(* class, v the printed value (for objects and arrays an opaque token).    *)

Undefined == [kind |-> "undefined", v |-> "undefined"]
Null == [kind |-> "null", v |-> "null"]
Str(s) == [kind |-> "string", v |-> s]
Num(s) == [kind |-> "number", v |-> s]
Bool(b) == [kind |-> "boolean", v |-> IF b THEN "true" ELSE "false"]
Obj(s) == [kind |-> "object", v |-> s]
Arr(s) == [kind |-> "array", v |-> s]

\* An object or array with own enumerable properties: props maps each key to
\* its value.  An array of length n has the keys "0" .. "n-1".
NullData == [kind |-> "null", props |-> <<>>]
UndefinedData == [kind |-> "undefined", props |-> <<>>]
ZeroData == [kind |-> "number", props |-> <<>>]
ObjData(p) == [kind |-> "object", props |-> p]
ArrData(p) == [kind |-> "array", props |-> p]

Keys(d) == DOMAIN d.props

\* d[k] of a property read: undefined when the key is absent
Get(d, k) == IF k \in Keys(d) THEN d.props[k] ELSE Undefined

\* JavaScript truthiness of a top-level payload: undefined, null and 0 are
\* falsy, objects and arrays truthy
Truthy(d) == d.kind \in {"object", "array"}

\* an exception: thrown is FALSE when there is none; code and message are ""
\* when the thrown value has no such property
NoError == [thrown |-> FALSE, code |-> "", message |-> ""]
Error(code, message) == [thrown |-> TRUE, code |-> code, message |-> message]

\* routeOptions and router options the handlers read
-----------------------------------------------------------------------------
(* Api_Response                                                             *)

Kinds == {"ok", "error", "info", "warning"}
Verbs == {"get", "post", "put", "patch", "delete"}

\* data/StatusCode.js
statusCodes(type, functionType) ==
    CASE type = "ok" ->
            (CASE functionType = "get" -> 200
               [] functionType = "post" -> 201
               [] functionType = "put" -> 200
               [] functionType = "patch" -> 200
               [] functionType = "delete" -> 204)
      [] type = "error" ->
            (CASE functionType = "get" -> 404
               [] functionType = "post" -> 400
               [] functionType = "put" -> 400
               [] functionType = "patch" -> 400
               [] functionType = "delete" -> 404)
      [] type = "info" ->
            (CASE functionType = "get" -> 200
               [] functionType = "post" -> 202
               [] functionType = "put" -> 202
               [] functionType = "patch" -> 202
               [] functionType = "delete" -> 202)
      [] type = "warning" -> 200

\* data/message.js
messages(type, functionType) ==
    CASE type = "ok" ->
            (CASE functionType = "get" -> "Data retrieved successfully"
               [] functionType = "post" -> "Resource created successfully"
               [] functionType = "put" -> "Resource updated successfully"
               [] functionType = "patch" -> "Resource partially updated successfully"
               [] functionType = "delete" -> "Resource deleted successfully")
      [] type = "error" ->
            (CASE functionType = "get" -> "Failed to retrieve data"
               [] functionType = "post" -> "Failed to create resource"
               [] functionType = "put" -> "Failed to update resource"
               [] functionType = "patch" -> "Failed to partially update resource"
               [] functionType = "delete" -> "Failed to delete resource")
      [] type = "info" ->
            (CASE functionType = "get" -> "Information retrieved"
               [] functionType = "post" -> "Information processed"
               [] functionType = "put" -> "Information updated"
               [] functionType = "patch" -> "Information modified"
               [] functionType = "delete" -> "Information removed")
      [] type = "warning" ->
            (CASE functionType = "get" -> "Data retrieved with warnings"
               [] functionType = "post" -> "Resource created with warnings"
               [] functionType = "put" -> "Resource updated with warnings"
               [] functionType = "patch" -> "Resource partially updated with warnings"
               [] functionType = "delete" -> "Resource deleted with warnings")

\* String.prototype.toUpperCase on the method names that occur
toUpperCase(s) ==
    CASE s = "get" -> "GET"
      [] s = "post" -> "POST"
      [] s = "put" -> "PUT"
      [] s = "patch" -> "PATCH"
      [] s = "delete" -> "DELETE"
      [] s = "head" -> "HEAD"
      [] OTHER -> s

\* getHandler: the handler tables of error/, ok/, info/ and warring/ each
\* define get, post, put, patch and delete; anything else has no handler.
getHandler(type, functionType) == type \in Kinds /\ functionType \in Verbs

getDefaultStatusCode_AllOk(type, functionType) ==
    IF type \in Kinds /\ functionType \in Verbs
    THEN statusCodes("ok", functionType)
    ELSE 200

\* statusCodes[type]?.[functionType] || 200
getDefaultStatusCode(type, functionType) ==
    IF type \in Kinds /\ functionType \in Verbs
    THEN statusCodes(type, functionType)
    ELSE 200

\* messages[type]?.[functionType] || 'Operation completed'
getDefaultMessage(type, functionType) ==
    IF type \in Kinds /\ functionType \in Verbs
    THEN messages(type, functionType)
    ELSE "Operation completed"

\* Buffer.from(JSON.stringify(data)).toString('base64'): an injective
\* encoding of the payload; the result is a string, not an object.
Base64Json(d) == [encoded |-> TRUE, props |-> <<>>, blob |-> d]

\* encryptData
encryptData(encryptionValue, d) ==
    IF ~encryptionValue THEN [encoded |-> FALSE, props |-> d.props, blob |-> NullData]
    ELSE Base64Json(d)

\* a plain (object) body with the given properties
PlainBody(p) == [encoded |-> FALSE, props |-> p, blob |-> NullData]

\* { message: currentMessage, ...data }: the spread comes last, so a payload
\* key named message replaces the message put first.
SpreadBody(currentMessage, d) ==
    PlainBody([k \in {"message"} \cup Keys(d) |->
                  IF k \in Keys(d) THEN d.props[k] ELSE Str(currentMessage)])

NoResponse == [body |-> PlainBody(<<>>), headers |-> <<>>, statusCode |-> 0]

\* routeOptions before a route is registered
NoConfig ==
    [hasBefore |-> FALSE, hasValidation |-> FALSE, hasAfter |-> FALSE,
     enableConstraintChecking |-> FALSE, enableCascadeHandling |-> FALSE,
     autoDetectRelations |-> FALSE, errorHandler |-> FALSE, isDev |-> FALSE,
     encryptionValue |-> FALSE, errorResponse |-> NoResponse]

\* createErrorResponse
createErrorResponse(errorCode, message, statusCode, isDev) ==
    [body |-> PlainBody([k \in {"error", "message", "code"} |->
                            CASE k = "error" -> Bool(TRUE)
                              [] k = "message" -> Str(message)
                              [] k = "code" -> Str(errorCode)]),
     headers |-> [h \in {"X-Response-Type", "X-Response-Method", "X-Environment",
                         "X-Error-Code"} |->
                     CASE h = "X-Response-Type" -> "error"
                       [] h = "X-Response-Method" -> "ERROR"
                       [] h = "X-Environment" ->
                            (IF isDev THEN "development" ELSE "production")
                       [] h = "X-Error-Code" -> errorCode],
     statusCode |-> statusCode]

\* The headers of match that do not depend on the clock or on the uuid
\* (X-Response-ID, X-Response-Time, X-Timestamp, X-API-Version and
\* x-powered-by carry values the model does not track).
matchHeaders(type, functionType, d, isDev, encryptionValue) ==
    [h \in {"X-Response-Type", "X-Response-Method", "X-Environment", "X-Encrypted"} |->
        CASE h = "X-Response-Type" -> type
          [] h = "X-Response-Method" -> toUpperCase(functionType)
          [] h = "X-Environment" -> (IF isDev THEN "development" ELSE "production")
          [] h = "X-Encrypted" -> (IF encryptionValue THEN "true" ELSE "false")]

\* match(type, functionType, data, message, statusCode): message "" and
\* statusCode 0 stand for the omitted (falsy) arguments; encryptionValue is
\* TRUE when the instance was built with an encryption key.
match(type, functionType, d, message, statusCode, isDev, encryptionValue) ==
    LET currentStatusCode == IF statusCode # 0 THEN statusCode
                             ELSE getDefaultStatusCode(type, functionType)
        currentMessage == IF message # "" THEN message
                          ELSE getDefaultMessage(type, functionType)
    IN  IF ~getHandler(type, functionType)
        THEN createErrorResponse("HANDLER_NOT_FOUND",
                                 "No handler found for " \o type \o "/" \o functionType,
                                 500, isDev)
        ELSE [body |-> IF encryptionValue /\ Truthy(d)
                       THEN encryptData(encryptionValue, d)
                       ELSE SpreadBody(currentMessage, d),
              headers |-> matchHeaders(type, functionType, d, isDev, encryptionValue),
              statusCode |-> currentStatusCode]

\* success / error / info / warning
success(functionType, d, message, statusCode, isDev, encryptionValue) ==
    match("ok", functionType, d, message, statusCode, isDev, encryptionValue)

error(functionType, d, message, statusCode, isDev, encryptionValue) ==
    match("error", functionType, d, message, statusCode, isDev, encryptionValue)

-----------------------------------------------------------------------------
(* DatabaseAnalyzer                                                         *)

\* An element of modelMeta.fields as analyzeDatabaseStructure reads it.  raw
\* is the element itself when it is a string (a key of the sample record):
\* every property read on a string yields undefined, so name is "undefined"
\* and the flags are false.  A field descriptor object has raw = "".
StringField(s) ==
    [raw |-> s, name |-> "undefined", isRequired |-> FALSE, isId |-> FALSE,
     hasDefaultValue |-> FALSE, isUnique |-> FALSE, relationName |-> "",
     type |-> "undefined", onDelete |-> "", onUpdate |-> ""]

FieldDescriptor(name, isRequired, isId, hasDefaultValue, isUnique, relationName, type, onDelete, onUpdate) ==
    [raw |-> "", name |-> name, isRequired |-> isRequired, isId |-> isId,
     hasDefaultValue |-> hasDefaultValue, isUnique |-> isUnique,
     relationName |-> relationName, type |-> type, onDelete |-> onDelete,
     onUpdate |-> onUpdate]

\* the names of the fields of a sequence, in order
NamesOf(fields) == [i \in 1..Len(fields) |-> fields[i].name]

IsRequiredField(f) == f.isRequired /\ ~f.isId /\ ~f.hasDefaultValue
IsOptionalField(f) == ~IsRequiredField(f) /\ ~f.isRequired /\ ~f.isId
IsUniqueField(f) == f.isUnique
IsRelationField(f) == f.relationName # ""
IsCascadeDelete(f) == IsRelationField(f) /\ f.onDelete = "Cascade"
IsCascadeUpdate(f) == IsRelationField(f) /\ f.onUpdate = "Cascade"

ForeignKey(f) ==
    [field |-> f.name, referencedModel |-> f.type, relationName |-> f.relationName,
     onDelete |-> IF f.onDelete # "" THEN f.onDelete ELSE "Restrict",
     onUpdate |-> IF f.onUpdate # "" THEN f.onUpdate ELSE "Cascade"]

\* dbStructure.has(modelName) is false
NoStructure ==
    [present |-> FALSE, fields |-> <<>>, hasRelations |-> FALSE, foreignKeys |-> <<>>,
     uniqueConstraints |-> <<>>, requiredFields |-> <<>>, optionalFields |-> <<>>,
     cascadeDelete |-> <<>>, cascadeUpdate |-> <<>>]

\* the structure analyzeDatabaseStructure builds from modelMeta.fields
BuildStructure(fields) ==
    LET rel == SelectSeq(fields, IsRelationField)
    IN  [present |-> TRUE,
         fields |-> fields,
         hasRelations |-> Len(rel) > 0,
         foreignKeys |-> [i \in 1..Len(rel) |-> ForeignKey(rel[i])],
         uniqueConstraints |-> NamesOf(SelectSeq(fields, IsUniqueField)),
         requiredFields |-> NamesOf(SelectSeq(fields, IsRequiredField)),
         optionalFields |-> NamesOf(SelectSeq(fields, IsOptionalField)),
         cascadeDelete |-> NamesOf(SelectSeq(fields, IsCascadeDelete)),
         cascadeUpdate |-> NamesOf(SelectSeq(fields, IsCascadeUpdate))]

\* _sampleCache[modelName] is unset
NoSample == <<>>

\* getModelMetadata(model).fields: Object.keys of the cached sample record,
\* or nothing when no sample is cached (sample is the sequence of its keys)
getModelMetadata(sample) == [i \in 1..Len(sample) |-> StringField(sample[i])]

\* analyzeDatabaseStructure: the cached entry if there is one, otherwise the
\* structure built from the metadata (which the caller then caches)
analyzeDatabaseStructure(cached, sample) ==
    IF cached.present THEN cached ELSE BuildStructure(getModelMetadata(sample))

\* a persistence-engine call: the method, what it is aimed at, and for a
\* write the relation keys written by nested create
Call(fn, target, relations) == [fn |-> fn, target |-> target, relations |-> relations]

isEmptyValue_NullOk(v) == v = Undefined \/ v = Str("")

\* data[field] === undefined || data[field] === null || data[field] === ''
isEmptyValue(v) == v = Undefined \/ v = Null \/ v = Str("")

RECURSIVE requiredViolations(_, _)
\* the loop over structure.requiredFields of checkConstraints
requiredViolations(d, requiredFields) ==
    IF requiredFields = <<>> THEN <<>>
    ELSE (IF isEmptyValue(Get(d, Head(requiredFields)))
          THEN <<"Required field '" \o Head(requiredFields) \o "' is missing or empty">>
          ELSE <<>>) \o requiredViolations(d, Tail(requiredFields))

RECURSIVE uniqueViolations(_, _, _)
\* the loop over structure.uniqueConstraints: findFirst[f] is what the lookup
\* on field f does ("row", "null" or "throw"); a throw is only logged
uniqueViolations(d, uniqueConstraints, findFirst) ==
    IF uniqueConstraints = <<>> THEN <<>>
    ELSE LET f == Head(uniqueConstraints)
         IN  (IF Get(d, f) # Undefined /\ findFirst[f] = "row"
              THEN <<"Unique constraint violation on field '" \o f \o "'">>
              ELSE <<>>) \o uniqueViolations(d, Tail(uniqueConstraints), findFirst)

RECURSIVE uniqueCalls(_, _)
uniqueCalls(d, uniqueConstraints) ==
    IF uniqueConstraints = <<>> THEN <<>>
    ELSE (IF Get(d, Head(uniqueConstraints)) # Undefined
          THEN <<Call("findFirst", Head(uniqueConstraints), {})>>
          ELSE <<>>) \o uniqueCalls(d, Tail(uniqueConstraints))

RECURSIVE foreignKeyViolations(_, _, _, _)
\* the loop over structure.foreignKeys: registry is the set of referenced
\* model names getReferencedModel resolves, findUnique[f] what the lookup does
foreignKeyViolations(d, foreignKeys, registry, findUnique) ==
    IF foreignKeys = <<>> THEN <<>>
    ELSE LET fk == Head(foreignKeys)
         IN  (IF Get(d, fk.field) # Undefined /\ fk.referencedModel \in registry
              THEN (CASE findUnique[fk.field] = "null" ->
                            <<"Foreign key constraint violation: " \o fk.field
                                \o " references non-existent " \o fk.referencedModel>>
                      [] findUnique[fk.field] = "throw" ->
                            <<"Error checking foreign key constraint for " \o fk.field>>
                      [] OTHER -> <<>>)
              ELSE <<>>)
             \o foreignKeyViolations(d, Tail(foreignKeys), registry, findUnique)

RECURSIVE foreignKeyCalls(_, _, _)
foreignKeyCalls(d, foreignKeys, registry) ==
    IF foreignKeys = <<>> THEN <<>>
    ELSE (IF Get(d, Head(foreignKeys).field) # Undefined
             /\ Head(foreignKeys).referencedModel \in registry
          THEN <<Call("findUnique", Head(foreignKeys).field, {})>>
          ELSE <<>>) \o foreignKeyCalls(d, Tail(foreignKeys), registry)

checkConstraints_SkipUnique(operation, d, structure, lookups) ==
    IF ~structure.present THEN [isValid |-> TRUE, violations |-> <<>>]
    ELSE LET violations ==
                 (IF operation = "create"
                  THEN requiredViolations(d, structure.requiredFields) ELSE <<>>)
                 \o foreignKeyViolations(d, structure.foreignKeys, lookups.registry,
                                         lookups.findUnique)
         IN  [isValid |-> violations = <<>>, violations |-> violations]

\* checkConstraints(operation, data, model) on the structure that
\* analyzeDatabaseStructure returned; lookups fixes what each lookup does
checkConstraints(operation, d, structure, lookups) ==
    IF ~structure.present THEN [isValid |-> TRUE, violations |-> <<>>]
    ELSE LET violations ==
                 (IF operation = "create"
                  THEN requiredViolations(d, structure.requiredFields) ELSE <<>>)
                 \o uniqueViolations(d, structure.uniqueConstraints, lookups.findFirst)
                 \o foreignKeyViolations(d, structure.foreignKeys, lookups.registry,
                                         lookups.findUnique)
         IN  [isValid |-> violations = <<>>, violations |-> violations]

\* the lookups checkConstraints issues, in order
constraintCalls(d, structure, lookups) ==
    IF ~structure.present THEN <<>>
    ELSE uniqueCalls(d, structure.uniqueConstraints)
         \o foreignKeyCalls(d, structure.foreignKeys, lookups.registry)

\* violations.join(', ')
RECURSIVE join(_)
join(strs) ==
    IF strs = <<>> THEN ""
    ELSE IF Len(strs) = 1 THEN strs[1]
    ELSE strs[1] \o ", " \o join(Tail(strs))

-----------------------------------------------------------------------------
(* Relation detection (closures of PrismaCrudRouter.route)                  *)

\* typeof value
typeof(v) ==
    CASE v.kind \in {"null", "object", "array"} -> "object"
      [] OTHER -> v.kind

isArray(v) == v.kind = "array"

SkippedKeys == {"id", "createdAt", "updatedAt", "uploadedFiles"}

\* the keys detectRelationTypes passes over
isSkipped(key, value) ==
    typeof(value) # "object" \/ value = Null \/ key \in SkippedKeys

detectRelationTypes_NoSkipList(d, autoDetectRelations) ==
    LET considered == {k \in Keys(d) : typeof(d.props[k]) = "object" /\ d.props[k] # Null}
    IN  [singleRelations |-> [k \in {x \in considered : ~isArray(d.props[x])} |-> d.props[k]],
         bulkRelations |-> [k \in {x \in considered : isArray(d.props[x])} |-> d.props[k]]]

\* detectRelationTypes(data)
detectRelationTypes(d, autoDetectRelations) ==
    IF ~autoDetectRelations THEN [singleRelations |-> <<>>, bulkRelations |-> <<>>]
    ELSE LET considered == {k \in Keys(d) : ~isSkipped(k, d.props[k])}
             bulk == {k \in considered : isArray(d.props[k])}
             single == {k \in considered :
                            ~isArray(d.props[k]) /\ typeof(d.props[k]) = "object"}
         IN  [singleRelations |-> [k \in single |-> d.props[k]],
              bulkRelations |-> [k \in bulk |-> d.props[k]]]

\* processNestedData(data)
processNestedData(d, autoDetectRelations) ==
    LET rel == detectRelationTypes(d, autoDetectRelations)
        kept == (Keys(d) \ DOMAIN rel.singleRelations) \ DOMAIN rel.bulkRelations
    IN  [mainData |-> [k \in kept |-> d.props[k]],
         singleRelations |-> rel.singleRelations,
         bulkRelations |-> rel.bulkRelations]

-----------------------------------------------------------------------------
(* Api_Response.setResponseHeaders                                          *)

\* the truthiness of a property value
TruthyValue(v) ==
    CASE v.kind \in {"undefined", "null"} -> FALSE
      [] v.kind = "string" -> v.v # ""
      [] v.kind = "number" -> v.v \notin {"0", "NaN"}
      [] v.kind = "boolean" -> v.v = "true"
      [] OTHER -> TRUE

\* item.id of each element of the array a token stands for, in order;
\* "undefined" for an element that has no id
ItemIds(token) ==
    CASE token = "rows:1,2" -> <<"1", "2">>
      [] token = "rows:1,-,3" -> <<"1", "undefined", "3">>
      [] token = "rows:-" -> <<"undefined">>
      [] OTHER -> <<>>

\* data.id of the object a token stands for; "undefined" when it has none
ObjectId(token) ==
    CASE token = "row:1" -> "1"
      [] token = "row:2" -> "2"
      [] OTHER -> "undefined"

RECURSIVE joinIds(_)
\* data.filter(item => item && item.id !== undefined).map(item => item.id).join(',')
joinIds(ids) ==
    IF ids = <<>> THEN ""
    ELSE LET rest == joinIds(Tail(ids))
         IN  IF Head(ids) = "undefined" THEN rest
             ELSE IF rest = "" THEN Head(ids)
             ELSE Head(ids) \o "," \o rest

\* the resource-id header setResponseHeaders adds: it reads body.data only
ResourceIdHeader(body) ==
    IF body.encoded \/ "data" \notin DOMAIN body.props THEN <<>>
    ELSE LET d == body.props["data"]
         IN  IF ~TruthyValue(d) THEN <<>>
             ELSE IF d.kind = "array"
             THEN (IF joinIds(ItemIds(d.v)) # ""
                   THEN [h \in {"X-Resource-IDs"} |-> joinIds(ItemIds(d.v))]
                   ELSE <<>>)
             ELSE IF d.kind = "object" /\ ObjectId(d.v) # "undefined"
             THEN [h \in {"X-Resource-ID"} |-> ObjectId(d.v)]
             ELSE <<>>

\* setResponseHeaders(res, apiResponse): the headers set on res
setResponseHeaders(apiResponse) ==
    LET extra == ResourceIdHeader(apiResponse.body)
    IN  [h \in DOMAIN apiResponse.headers \cup DOMAIN extra |->
            IF h \in DOMAIN extra THEN extra[h] ELSE apiResponse.headers[h]]
-----------------------------------------------------------------------------
(* handleCascadeOperations                                                  *)

\* an entry of cascadeResults; error tells whether its text includes 'Error'
CascadeResult(isError, text) == [error |-> isError, text |-> text]

\* dependent rows a cascade lookup returns at most
MaxRelated == 2

\* ids of the dependent rows a cascade lookup can return
RelatedIds == <<"r1", "r2", "r3">>

\* the cascade-delete pass for one field: outcome.found is the number of rows
\* findMany returned (-1: findMany threw), outcome.failAt the index of the row
\* whose delete threw (0: none).  The try block encloses the whole loop.
\* calls are the engine calls issued, changes the ones that took effect.
cascadeDeleteField(f, outcome) ==
    IF outcome.found < 0
    THEN [results |-> <<CascadeResult(TRUE, "Error in cascade delete for " \o f
                                              \o ": lookup failed")>>,
          calls |-> <<Call("findMany", f, {})>>,
          changes |-> <<>>]
    ELSE LET attempted == IF outcome.failAt = 0 THEN outcome.found ELSE outcome.failAt
             removed == IF outcome.failAt = 0 THEN outcome.found ELSE outcome.failAt - 1
         IN  [results |->
                  [i \in 1..removed |->
                      CascadeResult(FALSE, "Deleted related record " \o RelatedIds[i]
                                               \o " due to cascade")]
                  \o (IF outcome.failAt # 0
                      THEN <<CascadeResult(TRUE, "Error in cascade delete for " \o f
                                                     \o ": delete failed")>>
                      ELSE <<>>),
              calls |-> <<Call("findMany", f, {})>>
                        \o [i \in 1..attempted |-> Call("delete", RelatedIds[i], {})],
              changes |-> [i \in 1..removed |-> Call("delete", RelatedIds[i], {})]]

\* the cascade-update pass for one field: outcome.updateMany is "ok" or "throw"
cascadeUpdateField(f, d, outcome) ==
    IF Get(d, f) = Undefined THEN [results |-> <<>>, calls |-> <<>>, changes |-> <<>>]
    ELSE [results |->
              IF outcome.updateMany = "throw"
              THEN <<CascadeResult(TRUE, "Error in cascade update for " \o f
                                             \o ": update failed")>>
              ELSE <<CascadeResult(FALSE, "Updated related records for " \o f)>>,
          calls |-> <<Call("updateMany", f, {})>>,
          changes |-> IF outcome.updateMany = "throw" THEN <<>>
                      ELSE <<Call("updateMany", f, {})>>]

RECURSIVE cascadePass(_, _, _, _)
\* the loop over structure.cascadeDelete / structure.cascadeUpdate
cascadePass(operation, d, cascadeFields, outcomes) ==
    IF cascadeFields = <<>> THEN [results |-> <<>>, calls |-> <<>>, changes |-> <<>>]
    ELSE LET f == Head(cascadeFields)
             one == IF operation = "delete" THEN cascadeDeleteField(f, outcomes[f])
                    ELSE cascadeUpdateField(f, d, outcomes[f])
             rest == cascadePass(operation, d, Tail(cascadeFields), outcomes)
         IN  [results |-> one.results \o rest.results, calls |-> one.calls \o rest.calls,
              changes |-> one.changes \o rest.changes]

\* handleCascadeOperations(operation, data, model, id) on the structure that
\* analyzeDatabaseStructure returned
handleCascadeOperations(operation, d, structure, outcomes) ==
    IF ~structure.present \/ ~structure.hasRelations
    THEN [success |-> TRUE, results |-> <<>>, calls |-> <<>>, changes |-> <<>>]
    ELSE LET pass == CASE operation = "delete" ->
                            cascadePass("delete", d, structure.cascadeDelete, outcomes)
                       [] operation = "update" ->
                            cascadePass("update", d, structure.cascadeUpdate, outcomes)
                       [] OTHER -> [results |-> <<>>, calls |-> <<>>, changes |-> <<>>]
         IN  [success |-> \A i \in 1..Len(pass.results) : ~pass.results[i].error,
              results |-> pass.results,
              calls |-> pass.calls,
              changes |-> pass.changes]

-----------------------------------------------------------------------------
(* PrismaCrudRouter: handleError and the order of a handler's steps         *)

\* Curd_op/PrismaError: the message and status of a persistence error code;
\* a code without an entry reads as undefined ("" and 0)
ErrorCode(code) ==
    CASE code = "default" -> [errorMessage |-> "Internal server error", statusCode |-> 500]
      [] code = "P2002" -> [errorMessage |-> "Unique constraint failed", statusCode |-> 409]
      [] code = "P2025" -> [errorMessage |-> "Record not found", statusCode |-> 404]
      [] OTHER -> [errorMessage |-> "", statusCode |-> 0]

\* what the error handler of the integration test returns
CustomErrorResponse ==
    [body |-> PlainBody([k \in {"success", "error"} |->
                            IF k = "success" THEN Bool(FALSE)
                            ELSE Str("Custom error message")]),
     headers |-> <<>>,
     statusCode |-> 400]

\* the two ways an error handler may fail to give a response: it throws, so
\* that handleError does not return, or it returns undefined
OverrideThrew == [body |-> PlainBody(<<>>), headers |-> <<>>, statusCode |-> -1]
OverrideUndefined == [body |-> PlainBody(<<>>), headers |-> <<>>, statusCode |-> -2]

\* whether the catch block itself throws: handleError threw, or
\* setResponseHeaders read .headers of undefined
catchThrows(errResp) == errResp \in {OverrideThrew, OverrideUndefined}

handleError_AlwaysVerbose(e, method, c) ==
    IF c.errorHandler THEN c.errorResponse
    ELSE error(method, NullData,
               IF e.code # "" THEN ErrorCode(e.code).errorMessage ELSE e.message,
               IF e.code # "" THEN ErrorCode(e.code).statusCode
               ELSE ErrorCode("default").statusCode,
               c.isDev, c.encryptionValue)

handleError_IgnoreOverride(e, method, c) ==
    error(method, NullData,
          IF c.isDev
          THEN (IF e.code # "" THEN ErrorCode(e.code).errorMessage ELSE e.message)
          ELSE ErrorCode("default").errorMessage,
          IF e.code # "" THEN ErrorCode(e.code).statusCode
          ELSE ErrorCode("default").statusCode,
          c.isDev, c.encryptionValue)

\* handleError(error, method, customErrorHandler)
handleError(e, method, c) ==
    IF c.errorHandler THEN c.errorResponse
    ELSE LET errorMessage ==
                 IF c.isDev
                 THEN (IF e.code # "" THEN ErrorCode(e.code).errorMessage
                       ELSE e.message)
                 ELSE ErrorCode("default").errorMessage
             statusCode ==
                 IF e.code # "" THEN ErrorCode(e.code).statusCode
                 ELSE ErrorCode("default").statusCode
         IN  error(method, NullData, errorMessage, statusCode, c.isDev, c.encryptionValue)

\* the HTTP method name each handler passes to the formatter
MethodOf(operation) ==
    CASE operation = "create" -> "post"
      [] operation = "update" -> "put"
      [] operation = "delete" -> "delete"
      [] operation \in {"list", "getById"} -> "get"

StepOrder_ConstraintFirst ==
    <<"before", "constraint", "validation", "cascade", "write", "after">>

\* the awaited steps of a create / update / delete handler in program order
StepOrder == <<"before", "validation", "constraint", "cascade", "write", "after">>

Steps == {StepOrder[i] : i \in 1..Len(StepOrder)}

\* whether the handler of operation o executes the step: res is the handler's
\* local created / updated / deleted when the step is reached
Applies(step, o, c, res) ==
    CASE step = "before" -> c.hasBefore
      [] step = "validation" -> c.hasValidation /\ o \in {"create", "update"}
      [] step = "constraint" -> c.enableConstraintChecking /\ o \in {"create", "update"}
      [] step = "cascade" ->
            c.enableCascadeHandling /\ (o = "update" \/ (o = "delete" /\ ~Truthy(res)))
      [] step = "write" -> o \in {"create", "update"} \/ ~Truthy(res)
      [] step = "after" -> c.hasAfter

PositionOf(step) ==
    IF step = "start" THEN 0 ELSE CHOOSE i \in 1..Len(StepOrder) : StepOrder[i] = step

\* the step the handler reaches after step from, or "respond"
NextStep(from, o, c, res) ==
    LET later == {i \in (PositionOf(from) + 1)..Len(StepOrder) :
                     Applies(StepOrder[i], o, c, res)}
    IN  IF later = {} THEN "respond"
        ELSE StepOrder[CHOOSE i \in later : \A j \in later : i <= j]

\* !validationResult.isValid
validationRejects(validationResult) == ~validationResult.isValid

cascadeRejects_OnFailure(cascadeResult) == ~cascadeResult.success

\* whether a cascade result makes the handler throw: a result that is not a
\* success is passed to console.warn and nothing is thrown
cascadeRejects(cascadeResult) == FALSE

constraintRejects_Never(constraintCheck) == FALSE

\* !constraintCheck.isValid
constraintRejects(constraintCheck) == ~constraintCheck.isValid

\* the argument of model.create / model.update built by
\* createWithAutoDetectedRelations / updateWithAutoDetectedRelations, or the
\* body itself when autoDetectRelations is off: the relation keys it writes
\* through nested create
writeRelations(d, c) ==
    IF ~c.autoDetectRelations THEN {}
    ELSE LET split == processNestedData(d, c.autoDetectRelations)
         IN  DOMAIN split.singleRelations \cup DOMAIN split.bulkRelations

\* whether the write goes through models.$transaction: neither
\* createWithAutoDetectedRelations nor updateWithAutoDetectedRelations calls it
usesTransaction(d, c) == FALSE

\* the persistence calls of the write step
writeCalls(o, d, c) ==
    (IF o \in {"create", "update"} /\ usesTransaction(d, c)
     THEN <<Call("$transaction", "models", {})>> ELSE <<>>)
    \o <<Call(o, "model", IF o = "delete" THEN {} ELSE writeRelations(d, c))>>

-----------------------------------------------------------------------------
(* The list handler: filtering of where, orderBy and select                 *)

\* A parsed JSON value of the query string: scalars carry their printed
\* value in v, objects and arrays their properties in props (an array of
\* length n has the keys "0" .. "n-1").
Leaf(kind, v) == [kind |-> kind, v |-> v, props |-> <<>>]
Node(p) == [kind |-> "object", v |-> "", props |-> p]
List(p) == [kind |-> "array", v |-> "", props |-> p]
Absent == Leaf("undefined", "")

\* the keys of an array in index order
Index == <<"0", "1", "2">>

\* Object.keys(x).length of an object or array
Size(x) == Cardinality(DOMAIN x.props)

\* the elements of an array in index order
Elements(x) == [i \in 1..Size(x) |-> x.props[Index[i]]]

\* the array holding the elements of a sequence
ListOf(seq) == List([k \in {Index[i] : i \in 1..Len(seq)} |->
                        seq[CHOOSE i \in 1..Len(seq) : Index[i] = k]])

\* the truthiness of a parsed value
TruthyJson(x) ==
    CASE x.kind \in {"undefined", "null"} -> FALSE
      [] x.kind = "string" -> x.v # ""
      [] x.kind = "number" -> x.v \notin {"0", "NaN"}
      [] x.kind = "boolean" -> x.v = "true"
      [] OTHER -> TRUE

\* typeof x === 'object' (true of null as well)
IsObjectType(x) == x.kind \in {"object", "array", "null"}

LOGICALS == {"AND", "OR", "NOT"}

\* v && Object.keys(v).length > 0, for the objects and arrays a logical
\* operator lists
NonEmpty(x) == x.kind \in {"object", "array"} /\ Size(x) > 0

RECURSIVE filterWhereObject(_, _)
\* filterWhereObject(where, validFields)
filterWhereObject(where, validFields) ==
    IF where.kind \notin {"object", "array"} THEN where
    ELSE LET filtered(k) ==
                 LET value == where.props[k]
                 IN  IF k \in LOGICALS /\ value.kind = "array"
                     THEN ListOf(SelectSeq(
                              [i \in 1..Size(value) |->
                                  filterWhereObject(Elements(value)[i], validFields)],
                              NonEmpty))
                     ELSE IF value.kind = "object"
                     THEN filterWhereObject(value, validFields)
                     ELSE value
             kept(k) ==
                 IF k \in LOGICALS
                 THEN \/ where.props[k].kind = "array"
                      \/ where.props[k].kind = "object" /\ NonEmpty(filtered(k))
                 ELSE k \in validFields
         IN  [kind |-> where.kind, v |-> "",
              props |-> [k \in {x \in DOMAIN where.props : kept(x)} |-> filtered(k)]]

\* the global and per-route exclude list: options.excludeFields defaults to
\* ['password'], routeOptions.excludeFields to []
ExcludedFields == {"password"}

\* validFields: structure.fields when it is not empty, compared with keys by
\* Array.prototype.includes; a descriptor object equals no key
ValidFields(structure) ==
    {structure.fields[i].raw : i \in 1..Len(structure.fields)} \ {""}

\* filteredFields
FilteredFields(structure) == ValidFields(structure) \ ExcludedFields

\* step 5: the select object the handler builds from the select parameter
FilterSelect(select, filteredFields) ==
    IF TruthyJson(select)
    THEN IF select.kind = "array"
         THEN Node([k \in {Elements(select)[i].v : i \in 1..Size(select)}
                          \cap filteredFields |-> Leaf("boolean", "true")])
         ELSE IF select.kind = "object"
         THEN Node([k \in DOMAIN select.props \cap filteredFields |-> select.props[k]])
         ELSE select
    ELSE Node([k \in filteredFields |-> Leaf("boolean", "true")])

\* Object.keys(o)[0] of an orderBy element is a filtered field
OrderedByKnown(o, filteredFields) ==
    /\ TruthyJson(o)
    /\ o.kind \in {"object", "array"}
    /\ Size(o) > 0
    /\ \E k \in DOMAIN o.props \cap filteredFields : TRUE

\* step 6: the orderBy the handler passes on
FilterOrderBy(orderBy, filteredFields) ==
    IF ~(TruthyJson(orderBy) /\ IsObjectType(orderBy)) THEN orderBy
    ELSE LET narrowed ==
                 IF orderBy.kind = "array"
                 THEN ListOf(SelectSeq(Elements(orderBy),
                                       LAMBDA o : OrderedByKnown(o, filteredFields)))
                 ELSE Node([k \in DOMAIN orderBy.props \cap filteredFields |->
                               orderBy.props[k]])
         IN  IF Size(narrowed) = 0 THEN Absent ELSE narrowed

\* step 7: includeObject.  Nothing is included when the request has a
\* select; otherwise the foreign keys of the structure (with includeRelations)
\* and the requested keys that are filtered fields or foreign keys
IncludeObject(include, hasSelect, includeRelations, structure, filteredFields) ==
    LET foreignKeyFields ==
            {structure.foreignKeys[i].field : i \in 1..Len(structure.foreignKeys)}
        automatic == IF includeRelations /\ structure.hasRelations
                     THEN foreignKeyFields ELSE {}
        requested == IF TruthyJson(include) /\ include.kind \in {"object", "array"}
                     THEN DOMAIN include.props \cap (filteredFields \cup foreignKeyFields)
                     ELSE {}
    IN  IF hasSelect THEN Node(<<>>)
        ELSE Node([k \in automatic \cup requested |->
                      IF k \in requested THEN include.props[k]
                      ELSE Leaf("boolean", "true")])

\* isAdvanced: select || orderBy || include || query.skip || query.take,
\* for a request without skip and take
isAdvanced(select, orderBy, include) ==
    TruthyJson(select) \/ TruthyJson(orderBy) \/ TruthyJson(include)

\* findManyArgs.select after the keys outside validFields are deleted and an
\* empty select is dropped
PruneSelect(select, validFields) ==
    IF ~TruthyJson(select) THEN Absent
    ELSE IF select.kind # "object" THEN select
    ELSE LET pruned == Node([k \in DOMAIN select.props \cap validFields |->
                                select.props[k]])
         IN  IF Size(pruned) = 0 THEN Absent ELSE pruned

\* the arguments of one persistence call of the list handler
FindArgs(fn, where, orderBy, select, include) ==
    [fn |-> fn, where |-> where, orderBy |-> orderBy, select |-> select,
     include |-> include]

\* the findMany and count arguments the list handler builds from the parsed
\* query and the analyzed structure, on a route registered with the default
\* includeRelations = false.  With an advanced parameter the include is
\* passed only when select is falsy; otherwise whenever it is not empty
listCalls(q, structure) ==
    LET filteredFields == FilteredFields(structure)
        filteredFilter == filterWhereObject(q.filter, filteredFields)
        select == FilterSelect(q.select, filteredFields)
        orderBy == FilterOrderBy(q.orderBy, filteredFields)
        includeObject == IncludeObject(q.include, TruthyJson(q.select), FALSE,
                                       structure, filteredFields)
        advanced == isAdvanced(select, orderBy, q.include)
    IN  [advanced |-> advanced,
         findMany |-> FindArgs("findMany", filteredFilter, orderBy,
                               IF advanced
                               THEN PruneSelect(select, ValidFields(structure))
                               ELSE Absent,
                               IF (advanced => ~TruthyJson(select)) /\ Size(includeObject) > 0
                               THEN includeObject ELSE Absent),
         count |-> FindArgs("count", filteredFilter, Absent, Absent, Absent)]
-----------------------------------------------------------------------------
(* Values of the variables a specification does not exercise                *)

NoFmtIn ==
    [type |-> "none", functionType |-> "none", data |-> NullData, message |-> "",
     statusCode |-> 0, IsDevMode |-> FALSE, encryptionValue |-> FALSE]

FmtIdle == fmtIn = NoFmtIn /\ fmtOut = NoResponse

NoLookups == [findFirst |-> <<>>, registry |-> {}, findUnique |-> <<>>]

NoCcIn ==
    [fn |-> "none", operation |-> "none", data |-> NullData, structure |-> NoStructure,
     lookups |-> NoLookups, outcomes |-> <<>>]

NoCcOut ==
    [done |-> FALSE, isValid |-> TRUE, violations |-> <<>>, mainData |-> <<>>,
     singleRelations |-> <<>>, bulkRelations |-> <<>>, results |-> <<>>, calls |-> <<>>]

CcIdle == ccIn = NoCcIn /\ ccOut = NoCcOut

\* no request is being handled
RouteIdle ==
    /\ cfg = NoConfig
    /\ dbStructure = NoStructure
    /\ sampleCache = NoSample
    /\ pc = "idle"
    /\ awaiting = FALSE
    /\ op = "none"
    /\ data = NullData
    /\ result = UndefinedData
    /\ valid = "none"
    /\ viol = <<>>
    /\ warnings = <<>>
    /\ trace = <<>>
    /\ calls = <<>>
    /\ outstanding = 0
    /\ err = NoError
    /\ resp = NoResponse
    /\ served = 0
    /\ changed = {}


\* no list request is being handled and no global handler has been set
NoQuery ==
    [kind |-> "none", filter |-> Absent, orderBy |-> Absent, select |-> Absent,
     include |-> Absent]

ReadIdle == query = NoQuery /\ findArgs = <<>> /\ globalErrorHandler = FALSE

\* no concurrent requests
RaceIdle == reqs = <<>> /\ table = <<>>

\* no route is being registered
RegIdle == defaultMiddleware = <<>> /\ registered = <<>>

\* the analyzer's maps are not exercised
CacheIdle == handles = <<>> /\ structures = <<>> /\ samples = <<>> /\ analyzed = <<>>
-----------------------------------------------------------------------------
(* The formatter on its own: one Api_Response instance formats a call.     *)

\* payloads handed to the formatter
FmtData ==
    { NullData,
      ObjData(<<>>),
      ObjData([id |-> Num("1"), name |-> Str("John")]),
      ObjData([message |-> Str("Processing")]),
      ObjData([field |-> Str("email"), issue |-> Str("Invalid format")]),
      ObjData([error |-> Bool(TRUE)]),
      ObjData([data |-> Arr("rows:1,2"), count |-> Num("2")]),
      ArrData(<<>>),
      ArrData([k \in {"0", "1"} |-> IF k = "0" THEN Obj("row:1") ELSE Obj("row:2")]) }

FmtMessages == {"", "Custom message"}
FmtStatusCodes == {0, 200, 404, 418, 500}

FmtInputs ==
    [type : Kinds \cup {"fatal"}, functionType : Verbs \cup {"head"}, data : FmtData,
     message : FmtMessages, statusCode : FmtStatusCodes,
     IsDevMode : BOOLEAN, encryptionValue : BOOLEAN]

FmtInit ==
    /\ fmtIn \in FmtInputs
    /\ fmtOut = NoResponse
    /\ CcIdle
    /\ RouteIdle
    /\ ReadIdle
    /\ RegIdle
    /\ CacheIdle
    /\ RaceIdle

\* apiResponse.match(type, functionType, data, message, statusCode)
FmtMatch ==
    /\ fmtOut = NoResponse
    /\ fmtOut' = match(fmtIn.type, fmtIn.functionType, fmtIn.data, fmtIn.message,
                       fmtIn.statusCode, fmtIn.IsDevMode, fmtIn.encryptionValue)
    /\ UNCHANGED <<regVars, cacheVars, fmtIn, ccVars, routeVars, readVars, raceVars>>

SpecFmt == FmtInit /\ [][FmtMatch]_vars

\* the call has returned, and a handler exists for its kind and verb
FmtDone == fmtOut # NoResponse
FmtStd == FmtDone /\ fmtIn.type \in Kinds /\ fmtIn.functionType \in Verbs

\* the default table as the specification states it
TableStatus ==
    [ok |-> [get |-> 200, post |-> 201, put |-> 200, patch |-> 200, delete |-> 204],
     error |-> [get |-> 404, post |-> 400, put |-> 400, patch |-> 400, delete |-> 404],
     info |-> [get |-> 200, post |-> 202, put |-> 202, patch |-> 202, delete |-> 202],
     warning |-> [get |-> 200, post |-> 200, put |-> 200, patch |-> 200, delete |-> 200]]

\* C7: for every kind and verb the formatter's statusCode is the default
\* table entry when no statusCode argument is given and the explicit
\* statusCode argument whenever one is given.
C7_StatusCodeLaw ==
    FmtStd =>
        fmtOut.statusCode =
            IF fmtIn.statusCode # 0 THEN fmtIn.statusCode
            ELSE TableStatus[fmtIn.type][fmtIn.functionType]

\* C7 witness: a delete formatted as ok without a status argument got 204
C7_Witness ==
    /\ FmtStd /\ fmtIn.type = "ok" /\ fmtIn.functionType = "delete"
    /\ fmtIn.statusCode = 0 /\ fmtOut.statusCode = 204

\* C8 (as claimed): every response of kind error has a body carrying
\* error: true together with the message, and no response of kind ok, info or
\* warning carries error: true.
C8_ErrorFlag ==
    FmtStd =>
        /\ fmtIn.type = "error" =>
              /\ ~fmtOut.body.encoded
              /\ "error" \in DOMAIN fmtOut.body.props
              /\ fmtOut.body.props["error"] = Bool(TRUE)
              /\ "message" \in DOMAIN fmtOut.body.props
        /\ fmtIn.type # "error" =>
              ~("error" \in DOMAIN fmtOut.body.props
                  /\ fmtOut.body.props["error"] = Bool(TRUE))

\* the flag the ok handler of each verb attaches, as the claim lists them
OkFlag(functionType, d) ==
    CASE functionType = "get" ->
            [key |-> "count",
             val |-> IF d.kind = "array"
                     THEN (IF Cardinality(Keys(d)) = 0 THEN Num("0")
                           ELSE IF Cardinality(Keys(d)) = 1 THEN Num("1") ELSE Num("2"))
                     ELSE IF Truthy(d) THEN Num("1") ELSE Num("0")]
      [] functionType = "post" -> [key |-> "created", val |-> Bool(TRUE)]
      [] functionType = "put" -> [key |-> "updated", val |-> Bool(TRUE)]
      [] functionType = "delete" -> [key |-> "deleted", val |-> Bool(TRUE)]

\* C9 (as claimed): a success body carries the verb-specific flag next to the
\* merged payload: count for get, created for post, updated for put, deleted
\* for delete.
C9_VerbFlag ==
    (FmtStd /\ fmtIn.type = "ok" /\ fmtIn.functionType \in {"get", "post", "put", "delete"}) =>
        LET flag == OkFlag(fmtIn.functionType, fmtIn.data)
        IN  /\ ~fmtOut.body.encoded
            /\ flag.key \in DOMAIN fmtOut.body.props
            /\ fmtOut.body.props[flag.key] = flag.val

\* the default message of each kind and verb
TableMessage ==
    [ok |-> [get |-> "Data retrieved successfully",
             post |-> "Resource created successfully",
             put |-> "Resource updated successfully",
             patch |-> "Resource partially updated successfully",
             delete |-> "Resource deleted successfully"],
     error |-> [get |-> "Failed to retrieve data",
                post |-> "Failed to create resource",
                put |-> "Failed to update resource",
                patch |-> "Failed to partially update resource",
                delete |-> "Failed to delete resource"],
     info |-> [get |-> "Information retrieved",
               post |-> "Information processed",
               put |-> "Information updated",
               patch |-> "Information modified",
               delete |-> "Information removed"],
     warning |-> [get |-> "Data retrieved with warnings",
                  post |-> "Resource created with warnings",
                  put |-> "Resource updated with warnings",
                  patch |-> "Resource partially updated with warnings",
                  delete |-> "Resource deleted with warnings"]]

\* C10 (as claimed): every response body contains a message field whose value
\* is the message argument when one is supplied and otherwise the default
\* message of the kind and verb, for every payload and also with an
\* encryption key configured.
C10_MessageField ==
    FmtStd =>
        /\ ~fmtOut.body.encoded
        /\ "message" \in DOMAIN fmtOut.body.props
        /\ fmtOut.body.props["message"] =
              Str(IF fmtIn.message # "" THEN fmtIn.message
                  ELSE TableMessage[fmtIn.type][fmtIn.functionType])


\* the value of header h of response r, "unset" when r does not carry it
Header(r, h) == IF h \in DOMAIN r.headers THEN r.headers[h] ELSE "unset"

\* C12 (as claimed): a response produced while an encryption key is
\* configured has the base64 encoding of the JSON payload as its body and
\* X-Encrypted 'true'; a response produced without a key has a plain object
\* body and X-Encrypted 'false'.  The header never says 'true' while the body
\* is sent unencoded.
C12_EncryptedIffFlagged ==
    FmtDone =>
        /\ fmtIn.encryptionValue =>
              /\ fmtOut.body = Base64Json(fmtIn.data)
              /\ Header(fmtOut, "X-Encrypted") = "true"
        /\ ~fmtIn.encryptionValue =>
              /\ ~fmtOut.body.encoded
              /\ Header(fmtOut, "X-Encrypted") = "false"
        /\ Header(fmtOut, "X-Encrypted") = "true" => fmtOut.body.encoded
-----------------------------------------------------------------------------
(* The constraint check and the relation detector on their own             *)

\* the objects whose keys take a value of choices[key] (Undefined: no key)
PayloadsOver(choices) ==
    LET all == UNION {choices[k] : k \in DOMAIN choices}
    IN  { ObjData([k \in {x \in DOMAIN a : a[x] # Undefined} |-> a[k]]) :
            a \in {f \in [DOMAIN choices -> all] : \A k \in DOMAIN choices : f[k] \in choices[k]} }

\* bodies handed to the relation detector
DetectPayloads ==
    PayloadsOver([id |-> {Undefined, Num("1"), Obj("idobj")},
                  name |-> {Undefined, Str("J"), Null},
                  profile |-> {Undefined, Obj("bio"), Null, Arr("list"), Str("x")},
                  posts |-> {Undefined, Arr("posts"), Obj("o")},
                  uploadedFiles |-> {Undefined, Obj("files"), Arr("files")}])

\* bodies handed to the constraint check
CheckPayloads ==
    PayloadsOver([title |-> {Undefined, Null, Str(""), Str("T"), Num("0")},
                  content |-> {Undefined, Str(""), Str("hi")},
                  email |-> {Undefined, Str("a@x.com")},
                  authorId |-> {Undefined, Num("7")}])

\* field descriptors of a Post-like model as the schema declares them
IdField == FieldDescriptor("id", TRUE, TRUE, TRUE, FALSE, "", "Int", "", "")
TitleField == FieldDescriptor("title", TRUE, FALSE, FALSE, FALSE, "", "String", "", "")
ContentField == FieldDescriptor("content", FALSE, FALSE, FALSE, FALSE, "", "String", "", "")
ContentRequired == FieldDescriptor("content", TRUE, FALSE, FALSE, FALSE, "", "String", "", "")
TitleDefaulted == FieldDescriptor("title", TRUE, FALSE, TRUE, FALSE, "", "String", "", "")
EmailField == FieldDescriptor("email", TRUE, FALSE, FALSE, TRUE, "", "String", "", "")
AuthorField ==
    FieldDescriptor("authorId", FALSE, FALSE, FALSE, FALSE, "PostAuthor", "User",
                    "Cascade", "Cascade")

\* cached structures the constraint check is run against: what the analyzer
\* builds without and with a sample record, and structures carrying the
\* schema's attributes as installed in dbStructure by the host application
CheckStructures ==
    { BuildStructure(getModelMetadata(NoSample)),
      BuildStructure(getModelMetadata(<<"id", "title", "content">>)),
      BuildStructure(<<IdField, TitleField, ContentField, AuthorField>>),
      BuildStructure(<<IdField, TitleField, ContentRequired, EmailField>>),
      BuildStructure(<<IdField, ContentRequired, TitleDefaulted, EmailField, AuthorField>>),
      NoStructure }

LookupOutcomes == {"row", "null", "throw"}

CheckLookups ==
    [findFirst : [{"email"} -> LookupOutcomes], registry : {{}, {"User"}},
     findUnique : [{"authorId"} -> LookupOutcomes]]

\* a second self-relation with cascading delete and update
ParentField ==
    FieldDescriptor("parentId", FALSE, FALSE, FALSE, FALSE, "PostParent", "Post",
                    "Cascade", "Cascade")

\* cached structures the cascade pass is run against
CascadeStructures ==
    { BuildStructure(getModelMetadata(<<"id", "title", "authorId">>)),
      BuildStructure(<<IdField, TitleField, AuthorField, ParentField>>) }

\* what the engine does for each cascade field: the number of dependent rows
\* findMany returns (-1: it throws), the row whose delete throws (0: none),
\* and what updateMany does
FieldOutcomes ==
    {o \in [found : -1..MaxRelated, failAt : 0..MaxRelated, updateMany : {"ok", "throw"}] :
        o.failAt <= o.found \/ o.failAt = 0}

CcInputs ==
    [fn : {"check"}, operation : {"create", "update", "delete"}, data : CheckPayloads,
     structure : CheckStructures, lookups : CheckLookups, outcomes : {<<>>}]
    \cup
    [fn : {"detect"}, operation : {"create"}, data : DetectPayloads,
     structure : {NoStructure}, lookups : {NoLookups}, outcomes : {<<>>}]
    \cup
    [fn : {"cascade"}, operation : {"update", "delete"},
     data : {ObjData([title |-> Str("T")]), ObjData([authorId |-> Num("7")])},
     structure : CascadeStructures, lookups : {NoLookups},
     outcomes : [{"authorId", "parentId"} -> FieldOutcomes]]

PureInit ==
    /\ ccIn \in CcInputs
    /\ ccOut = NoCcOut
    /\ FmtIdle
    /\ RouteIdle
    /\ ReadIdle
    /\ RegIdle
    /\ CacheIdle
    /\ RaceIdle

\* databaseAnalyzer.checkConstraints(operation, data, model)
CcCheck ==
    /\ ccIn.fn = "check" /\ ~ccOut.done
    /\ LET r == checkConstraints(ccIn.operation, ccIn.data, ccIn.structure, ccIn.lookups)
       IN  ccOut' = [ccOut EXCEPT !.done = TRUE, !.isValid = r.isValid,
                                  !.violations = r.violations]
    /\ UNCHANGED <<regVars, cacheVars, ccIn, fmtVars, routeVars, readVars, raceVars>>

\* processNestedData(data), as createWithAutoDetectedRelations and
\* updateWithAutoDetectedRelations call it (autoDetectRelations is on)
CcDetect ==
    /\ ccIn.fn = "detect" /\ ~ccOut.done
    /\ LET r == processNestedData(ccIn.data, TRUE)
       IN  ccOut' = [ccOut EXCEPT !.done = TRUE, !.mainData = r.mainData,
                                  !.singleRelations = r.singleRelations,
                                  !.bulkRelations = r.bulkRelations]
    /\ UNCHANGED <<regVars, cacheVars, ccIn, fmtVars, routeVars, readVars, raceVars>>

\* databaseAnalyzer.handleCascadeOperations(operation, data, model, id)
CcCascade ==
    /\ ccIn.fn = "cascade" /\ ~ccOut.done
    /\ LET r == handleCascadeOperations(ccIn.operation, ccIn.data, ccIn.structure,
                                        ccIn.outcomes)
       IN  ccOut' = [ccOut EXCEPT !.done = TRUE, !.isValid = r.success,
                                  !.results = r.results, !.calls = r.calls]
    /\ UNCHANGED <<regVars, cacheVars, ccIn, fmtVars, routeVars, readVars, raceVars>>

SpecPure == PureInit /\ [][CcCheck \/ CcDetect \/ CcCascade]_vars

Detected == ccOut.done /\ ccIn.fn = "detect"
Checked == ccOut.done /\ ccIn.fn = "check"

\* C3: relation detection splits the top-level keys of the payload into
\* mainData, singleRelations and bulkRelations, pairwise disjoint and together
\* exactly keys(d); a key is a bulk relation iff its value is an array, a
\* single relation iff its value is a non-null non-array object, in both
\* cases only when the key is none of id, createdAt, updatedAt,
\* uploadedFiles; every other key stays in mainData with its value unchanged.
C3_RelationPartition ==
    Detected =>
        LET d == ccIn.data
            main == DOMAIN ccOut.mainData
            single == DOMAIN ccOut.singleRelations
            bulk == DOMAIN ccOut.bulkRelations
            reserved == {"id", "createdAt", "updatedAt", "uploadedFiles"}
        IN  /\ main \cap single = {} /\ main \cap bulk = {} /\ single \cap bulk = {}
            /\ main \cup single \cup bulk = Keys(d)
            /\ \A k \in Keys(d) :
                  /\ k \in bulk <=> (d.props[k].kind = "array" /\ k \notin reserved)
                  /\ k \in single <=> (d.props[k].kind = "object" /\ k \notin reserved)
                  /\ k \in main => ccOut.mainData[k] = d.props[k]
                  /\ k \in single => ccOut.singleRelations[k] = d.props[k]
                  /\ k \in bulk => ccOut.bulkRelations[k] = d.props[k]

\* C3 witness: a payload with a scalar, a null, a single relation, a bulk
\* relation and an object under a reserved key has been split
C3_Witness ==
    /\ Detected
    /\ {"name", "profile", "posts", "uploadedFiles"} \subseteq Keys(ccIn.data)
    /\ ccIn.data.props["profile"].kind = "object"
    /\ ccIn.data.props["posts"].kind = "array"
    /\ ccIn.data.props["name"] = Null
    /\ DOMAIN ccOut.singleRelations = {"profile"}
    /\ DOMAIN ccOut.bulkRelations = {"posts"}
    /\ "uploadedFiles" \in DOMAIN ccOut.mainData

\* how often s occurs in the sequence strs
Occurrences(strs, s) == Cardinality({i \in 1..Len(strs) : strs[i] = s})

RequiredMessage(f) == "Required field '" \o f \o "' is missing or empty"

\* d[f] is undefined, null or the empty string
MissingOrEmpty(d, f) ==
    \/ f \notin Keys(d)
    \/ d.props[f].kind = "null"
    \/ (d.props[f].kind = "string" /\ d.props[f].v = "")

CheckFieldNames == {"id", "title", "content", "email", "authorId", "undefined"}

\* C5: on create the constraint check reports one required-field violation
\* for each field of the cached required-field set whose value is undefined,
\* null or the empty string and none for the others; on any other operation
\* it reports no required-field violation.
C5_RequiredFields ==
    Checked =>
        LET R == {ccIn.structure.requiredFields[i] :
                     i \in 1..Len(ccIn.structure.requiredFields)}
        IN  /\ \A f \in CheckFieldNames :
                  Occurrences(ccOut.violations, RequiredMessage(f)) =
                      IF ccIn.operation = "create" /\ f \in R
                         /\ MissingOrEmpty(ccIn.data, f)
                      THEN 1 ELSE 0
            /\ (\E i \in 1..Len(ccOut.violations) :
                    ccOut.violations[i] \in {RequiredMessage(f) : f \in CheckFieldNames})
               => ~ccOut.isValid

\* C5 witness: a create checked against three required fields, one of them
\* null and another present, reported the null one and not the present one
C5_Witness ==
    /\ Checked /\ ccIn.operation = "create"
    /\ ccIn.structure.requiredFields = <<"title", "content", "email">>
    /\ Get(ccIn.data, "title") = Null
    /\ Get(ccIn.data, "content") = Str("hi")
    /\ Occurrences(ccOut.violations, RequiredMessage("title")) = 1
    /\ Occurrences(ccOut.violations, RequiredMessage("content")) = 0


Cascaded == ccOut.done /\ ccIn.fn = "cascade"

\* the number of calls of method fn in a sequence of engine calls
CallsOf(fn, cs) == Cardinality({i \in 1..Len(cs) : cs[i].fn = fn})

RECURSIVE MatchedRows(_, _)
\* the number of dependent rows the lookups of the cascade fields returned
MatchedRows(cascadeFields, outcomes) ==
    IF cascadeFields = <<>> THEN 0
    ELSE (IF outcomes[Head(cascadeFields)].found > 0
          THEN outcomes[Head(cascadeFields)].found ELSE 0)
         + MatchedRows(Tail(cascadeFields), outcomes)

\* C27 (as claimed): in the cascade delete pass a failure to delete one
\* dependent row is recorded without aborting the rest: every other
\* dependent row matched for that foreign-key field, and every remaining
\* cascade-flagged field, is still attempted.
C27_CascadeDeleteBestEffort ==
    (Cascaded /\ ccIn.operation = "delete" /\ ccIn.structure.hasRelations) =>
        /\ \A i \in 1..Len(ccIn.structure.cascadeDelete) :
              \E j \in 1..Len(ccOut.calls) :
                  ccOut.calls[j] = Call("findMany", ccIn.structure.cascadeDelete[i], {})
        /\ CallsOf("delete", ccOut.calls)
              = MatchedRows(ccIn.structure.cascadeDelete, ccIn.outcomes)
-----------------------------------------------------------------------------
(* The create, update and delete handlers of one registered route           *)

\* requests answered in one run
MaxRequests == 2

Configs ==
    [hasBefore : BOOLEAN, hasValidation : BOOLEAN, hasAfter : BOOLEAN,
     enableConstraintChecking : BOOLEAN, enableCascadeHandling : BOOLEAN,
     autoDetectRelations : BOOLEAN, errorHandler : BOOLEAN, isDev : BOOLEAN,
     encryptionValue : {FALSE}, errorResponse : {CustomErrorResponse}]

\* the model's fields as its schema declares them: title is required, has no
\* default and is not the primary key
SchemaFields == <<IdField, TitleField, ContentField, EmailField, AuthorField>>

\* dbStructure when the route is registered: empty, or holding a structure
\* with the schema's attributes installed by the host application
InitialStructures == {NoStructure, BuildStructure(SchemaFields)}

\* keys of the row findFirst returns to cacheSampleRecord
SampleKeys == <<"id", "title", "content", "email", "authorId">>

\* request bodies
Bodies ==
    { NullData,
      ObjData([content |-> Str("hi")]),
      ObjData([title |-> Str("T"), email |-> Str("a@x.com")]),
      ObjData([title |-> Str("T"), profile |-> Obj("bio")]),
      ObjData([title |-> Str(""), posts |-> Arr("posts"), authorId |-> Num("7")]) }

\* what a before hook may return in place of the body
BeforeRewrites == { ObjData([title |-> Str("T2"), tags |-> Arr("tags")]) }

\* what beforeDestroy may return: a falsy value or a substitute result
DestroySubstitutes == { ZeroData, ObjData([id |-> Num("1"), archived |-> Bool(TRUE)]) }

\* what an after hook may return in place of the result
AfterRewrites == { ObjData([id |-> Num("1"), extra |-> Bool(TRUE)]) }

\* the row the persistence engine returns from create / update / delete
WrittenRow == ObjData([id |-> Num("1"), title |-> Str("T")])

ValidationResults ==
    { [isValid |-> TRUE, message |-> ""],
      [isValid |-> FALSE, message |-> "Email is required"],
      [isValid |-> FALSE, message |-> ""] }

\* exceptions of hooks and of the persistence engine
HookError == Error("", "Hook failed")
EngineErrors == { Error("", "Database error"), Error("P2002", "Unique constraint failed") }

RouteLookups ==
    [findFirst : [{"email"} -> LookupOutcomes], registry : {{}, {"User"}},
     findUnique : [{"authorId"} -> LookupOutcomes]]

CascadeOutcomes ==
    [{"authorId"} ->
        {o \in [found : -1..MaxRelated, failAt : 0..MaxRelated, updateMany : {"ok", "throw"}] :
            o.failAt <= o.found \/ o.failAt = 0}]

Init ==
    /\ cfg \in Configs
    /\ dbStructure \in InitialStructures
    /\ sampleCache = NoSample
    /\ pc = "idle"
    /\ awaiting = FALSE
    /\ op = "none"
    /\ data = NullData
    /\ result = UndefinedData
    /\ valid = "none"
    /\ viol = <<>>
    /\ warnings = <<>>
    /\ trace = <<>>
    /\ calls = <<>>
    /\ outstanding = 0
    /\ err = NoError
    /\ resp = NoResponse
    /\ served = 0
    /\ changed = {}
    /\ FmtIdle
    /\ CcIdle
    /\ ReadIdle
    /\ RegIdle
    /\ CacheIdle
    /\ RaceIdle

\* the exception e reaches the handler's catch block
Throw(e) ==
    /\ err' = e
    /\ pc' = "catch"

\* the awaited call of step pc has settled
Settle ==
    /\ awaiting' = FALSE
    /\ outstanding' = outstanding - 1

\* a request enters its handler: the entry checks on req.body, then the first
\* step that applies
Receive(o, body) ==
    /\ pc = "idle" /\ served < MaxRequests
    /\ op' = o
    /\ data' = body
    /\ IF o \in {"create", "update"} /\ ~Truthy(body)
       THEN Throw(Error("", IF o = "create" THEN "Invalid data provided for creation"
                            ELSE "Invalid data provided for update"))
       ELSE pc' = NextStep("start", o, cfg, UndefinedData) /\ UNCHANGED err
    /\ UNCHANGED <<changed, regVars, cacheVars, cfg, dbStructure, sampleCache, awaiting, result, valid, viol, warnings,
                   trace, calls, outstanding, resp, served, fmtVars, ccVars, readVars, raceVars>>

\* the handler calls the hook, check or persistence method of step pc and
\* suspends in its await
StartStep ==
    /\ pc \in Steps /\ ~awaiting
    /\ awaiting' = TRUE
    /\ outstanding' = outstanding + 1
    /\ trace' = Append(trace, pc)
    /\ calls' = IF pc = "write" THEN calls \o writeCalls(op, data, cfg) ELSE calls
    /\ UNCHANGED <<changed, regVars, cacheVars, cfg, dbStructure, sampleCache, pc, op, data, result, valid, viol,
                   warnings, err, resp, served, fmtVars, ccVars, readVars, raceVars>>

\* beforeActions.create / update / destroy returns or throws
ReturnBefore ==
    /\ pc = "before" /\ awaiting
    /\ Settle
    /\ \/ /\ Throw(HookError)
          /\ UNCHANGED <<data, result>>
       \/ /\ op \in {"create", "update"}
          /\ data' \in {data} \cup BeforeRewrites
          /\ pc' = NextStep("before", op, cfg, result)
          /\ UNCHANGED <<result, err>>
       \/ /\ op = "delete"
          /\ result' \in {result} \cup DestroySubstitutes
          /\ pc' = NextStep("before", op, cfg, result')
          /\ UNCHANGED <<data, err>>
    /\ UNCHANGED <<changed, regVars, cacheVars, cfg, dbStructure, sampleCache, op, valid, viol, warnings, trace, calls,
                   resp, served, fmtVars, ccVars, readVars, raceVars>>

\* validation.create / update returns or throws
ReturnValidation ==
    /\ pc = "validation" /\ awaiting
    /\ Settle
    /\ \/ Throw(HookError) /\ UNCHANGED valid
       \/ \E validationResult \in ValidationResults :
            /\ valid' = IF validationResult.isValid THEN "valid" ELSE "invalid"
            /\ IF validationRejects(validationResult)
               THEN Throw(Error("", IF validationResult.message # ""
                                    THEN validationResult.message
                                    ELSE "Validation failed"))
               ELSE /\ pc' = NextStep("validation", op, cfg, result)
                    /\ UNCHANGED err
    /\ UNCHANGED <<changed, regVars, cacheVars, cfg, dbStructure, sampleCache, op, data, result, viol, warnings, trace,
                   calls, resp, served, fmtVars, ccVars, readVars, raceVars>>

\* databaseAnalyzer.checkConstraints returns
ReturnConstraint ==
    /\ pc = "constraint" /\ awaiting
    /\ Settle
    /\ LET structure == analyzeDatabaseStructure(dbStructure, sampleCache)
       IN  /\ dbStructure' = structure
           /\ \E lookups \in RouteLookups :
                LET constraintCheck == checkConstraints(op, data, structure, lookups)
                IN  /\ viol' = constraintCheck.violations
                    /\ calls' = calls \o constraintCalls(data, structure, lookups)
                    /\ IF constraintRejects(constraintCheck)
                       THEN Throw(Error("", "Constraint violations: "
                                              \o join(constraintCheck.violations)))
                       ELSE /\ pc' = NextStep("constraint", op, cfg, result)
                            /\ UNCHANGED err
    /\ UNCHANGED <<changed, regVars, cacheVars, cfg, sampleCache, op, data, result, valid, warnings, trace, resp,
                   served, fmtVars, ccVars, readVars, raceVars>>

\* databaseAnalyzer.handleCascadeOperations returns; a result that is not a
\* success is logged and the handler goes on
ReturnCascade ==
    /\ pc = "cascade" /\ awaiting
    /\ Settle
    /\ LET structure == analyzeDatabaseStructure(dbStructure, sampleCache)
       IN  /\ dbStructure' = structure
           /\ \E outcomes \in CascadeOutcomes :
                LET cascadeResult == handleCascadeOperations(op, data, structure, outcomes)
                IN  /\ calls' = calls \o cascadeResult.calls
                    /\ changed' = changed \cup {cascadeResult.changes[i] :
                                                  i \in 1..Len(cascadeResult.changes)}
                    /\ warnings' = IF cascadeResult.success THEN warnings
                                   ELSE cascadeResult.results
                    /\ IF cascadeRejects(cascadeResult)
                       THEN Throw(Error("", "Cascade operations failed"))
                       ELSE /\ pc' = NextStep("cascade", op, cfg, result)
                            /\ UNCHANGED err
    /\ UNCHANGED <<regVars, cacheVars, cfg, sampleCache, op, data, result, valid, viol, trace, resp,
                   served, fmtVars, ccVars, readVars, raceVars>>

\* model.create / model.update / model.delete returns a row or throws
ReturnWrite ==
    /\ pc = "write" /\ awaiting
    /\ Settle
    /\ \/ /\ \E e \in EngineErrors : Throw(e)
          /\ UNCHANGED <<result, changed>>
       \/ /\ result' = WrittenRow
          /\ changed' = changed \cup {Call(op, "model", {})}
          /\ pc' = NextStep("write", op, cfg, WrittenRow)
          /\ UNCHANGED err
    /\ UNCHANGED <<regVars, cacheVars, cfg, dbStructure, sampleCache, op, data, valid, viol, warnings, trace,
                   calls, resp, served, fmtVars, ccVars, readVars, raceVars>>

\* afterActions.create / update / destroy returns or throws
ReturnAfter ==
    /\ pc = "after" /\ awaiting
    /\ Settle
    /\ \/ /\ Throw(HookError)
          /\ UNCHANGED result
       \/ /\ result' \in {result} \cup AfterRewrites
          /\ pc' = "respond"
          /\ UNCHANGED err
    /\ UNCHANGED <<changed, regVars, cacheVars, cfg, dbStructure, sampleCache, op, data, valid, viol, warnings, trace,
                   calls, resp, served, fmtVars, ccVars, readVars, raceVars>>

\* apiResponse.success, setResponseHeaders, res.status(...).json(body): the
\* create handler sends 201, the others the formatter's statusCode
Respond ==
    /\ pc = "respond"
    /\ LET apiResponse == success(MethodOf(op), result, "", 0, cfg.isDev,
                                  cfg.encryptionValue)
       IN  resp' = [apiResponse EXCEPT
                       !.headers = setResponseHeaders(apiResponse),
                       !.statusCode = IF op = "create" THEN 201 ELSE apiResponse.statusCode]
    /\ pc' = "done"
    /\ UNCHANGED <<changed, regVars, cacheVars, cfg, dbStructure, sampleCache, awaiting, op, data, result, valid, viol,
                   warnings, trace, calls, outstanding, err, served, fmtVars, ccVars, readVars, raceVars>>

\* the catch block: handleError, setResponseHeaders,
\* res.status(errResp.statusCode || 500).json(errResp.body).  An exception
\* thrown inside the catch block rejects the handler's promise, which nothing
\* awaits: no response is sent
Catch ==
    /\ pc = "catch"
    /\ LET errResp == handleError(err, MethodOf(op), cfg)
       IN  IF catchThrows(errResp)
           THEN pc' = "unanswered" /\ UNCHANGED resp
           ELSE /\ resp' = [errResp EXCEPT
                               !.headers = setResponseHeaders(errResp),
                               !.statusCode = IF errResp.statusCode # 0
                                              THEN errResp.statusCode ELSE 500]
                /\ pc' = "done"
    /\ UNCHANGED <<changed, regVars, cacheVars, cfg, dbStructure, sampleCache, awaiting, op, data, result, valid, viol,
                   warnings, trace, calls, outstanding, err, served, fmtVars, ccVars, readVars, raceVars>>

\* the request is over; its locals are gone, the analyzer's caches stay
Finish ==
    /\ pc = "done"
    /\ served' = served + 1
    /\ pc' = "idle"
    /\ op' = "none"
    /\ data' = NullData
    /\ result' = UndefinedData
    /\ valid' = "none"
    /\ viol' = <<>>
    /\ warnings' = <<>>
    /\ trace' = <<>>
    /\ calls' = <<>>
    /\ err' = NoError
    /\ resp' = NoResponse
    /\ changed' = {}
    /\ UNCHANGED <<regVars, cacheVars, cfg, dbStructure, sampleCache, awaiting, outstanding, fmtVars, ccVars, readVars, raceVars>>

\* databaseAnalyzer.cacheSampleRecord(model), as a list request runs it
\* between two writes: findFirst returns a row and the sample is cached
CacheSampleRecord ==
    /\ pc = "idle" /\ sampleCache = NoSample
    /\ sampleCache' = SampleKeys
    /\ UNCHANGED <<changed, regVars, cacheVars, cfg, dbStructure, pc, awaiting, op, data, result, valid, viol, warnings,
                   trace, calls, outstanding, err, resp, served, fmtVars, ccVars, readVars, raceVars>>

Next ==
    \/ \E o \in {"create", "update"}, body \in Bodies : Receive(o, body)
    \/ Receive("delete", NullData)
    \/ StartStep
    \/ ReturnBefore
    \/ ReturnValidation
    \/ ReturnConstraint
    \/ ReturnCascade
    \/ ReturnWrite
    \/ ReturnAfter
    \/ Respond
    \/ Catch
    \/ Finish
    \/ CacheSampleRecord

Spec == Init /\ [][Next]_vars

\* the same handlers on a router that has just been constructed: nothing is
\* cached for the model yet
InitFresh == Init /\ dbStructure = NoStructure

SpecFresh == InitFresh /\ [][Next]_vars

-----------------------------------------------------------------------------
(* Properties of the handlers                                               *)

\* the position of each step in the order the specification fixes
ClaimedRank ==
    [before |-> 1, validation |-> 2, constraint |-> 3, cascade |-> 4, write |-> 5,
     after |-> 6]

Started(step) == \E i \in 1..Len(trace) : trace[i] = step

\* the request went through to its success response
Succeeded == pc \in {"respond", "done"} /\ ~err.thrown

\* C1: within one create, update or delete request the steps run in the
\* order before-hook, validation hook, constraint check, cascade advisory
\* pass, persistence write, after-hook; a step that does not apply or is not
\* configured is skipped, never reordered, and a step starts only after the
\* previous one has completed.
C1_FixedStepOrder ==
    /\ \A i, j \in 1..Len(trace) : i < j => ClaimedRank[trace[i]] < ClaimedRank[trace[j]]
    /\ outstanding = (IF awaiting THEN 1 ELSE 0)
    /\ Started("before") => cfg.hasBefore
    /\ Started("validation") => cfg.hasValidation /\ op \in {"create", "update"}
    /\ Started("constraint") => cfg.enableConstraintChecking /\ op \in {"create", "update"}
    /\ Started("cascade") => cfg.enableCascadeHandling /\ op \in {"update", "delete"}
    /\ Started("after") => cfg.hasAfter
    /\ (Succeeded /\ op \in {"create", "update"}) =>
          /\ cfg.hasBefore => Started("before")
          /\ cfg.hasValidation => Started("validation")
          /\ cfg.enableConstraintChecking => Started("constraint")
          /\ (cfg.enableCascadeHandling /\ op = "update") => Started("cascade")
          /\ Started("write")
          /\ cfg.hasAfter => Started("after")

\* C1 witness: an update that ran all six steps and was answered
C1_Witness ==
    /\ pc = "done" /\ op = "update"
    /\ trace = <<"before", "validation", "constraint", "cascade", "write", "after">>

IsWrite(call) == call.fn \in {"create", "update"}

\* C2: a create or update whose validation hook returns isValid = false, or
\* whose constraint check reports a violation, fails with an error response:
\* model.create / model.update is not invoked and the after-hook does not run.
C2_RejectedBeforeWrite ==
    (op \in {"create", "update"} /\ (valid = "invalid" \/ viol # <<>>)) =>
        /\ ~Started("write")
        /\ ~Started("after")
        /\ \A i \in 1..Len(calls) : ~IsWrite(calls[i])
        /\ err.thrown
        /\ pc # "respond"
        /\ pc = "done" =>
              IF cfg.errorHandler THEN resp = CustomErrorResponse
              ELSE resp.headers["X-Response-Type"] = "error"

\* C2 witness: an update passed its validation hook, was then refused by the
\* constraint check and has been answered
C2_Witness ==
    /\ pc = "done" /\ op = "update" /\ valid = "valid" /\ viol # <<>>
    /\ ~cfg.errorHandler /\ resp.headers["X-Response-Type"] = "error"

\* C2 witness of the other case: the validation hook refused a create
C2_WitnessValidation == pc = "done" /\ op = "create" /\ valid = "invalid"

\* C4 (as claimed): a write whose payload contains a detected relation is
\* performed inside the persistence engine's transactional grouping
\* ($transaction is invoked for the request before the write), and a payload
\* without a detected relation is written by a direct create / update call.
C4_NestedWriteInTransaction ==
    \A i \in 1..Len(calls) :
        IsWrite(calls[i]) =>
            ((calls[i].relations # {}) <=> (\E j \in 1..(i - 1) : calls[j].fn = "$transaction"))

\* the messages that name the field title
TitleMessages ==
    { "Constraint violations: Required field 'title' is missing or empty" }

\* C6 (as claimed): a create for a model with the required field title, sent
\* with constraint checking enabled and title missing from the body, ends in
\* an error response (status 400, in verbose mode a message naming the field)
\* and the record is not created, after any prior sequence of requests.
C6_MissingRequiredFieldRejected ==
    (pc = "done" /\ op = "create" /\ cfg.enableConstraintChecking
        /\ Started("constraint") /\ "title" \notin Keys(data)) =>
        /\ \A i \in 1..Len(calls) : calls[i].fn # "create"
        /\ ~cfg.errorHandler =>
              /\ resp.headers["X-Response-Type"] = "error"
              /\ resp.statusCode = 400
              /\ cfg.isDev => resp.body.props["message"].v \in TitleMessages


\* some call of the cascade pass throws under the outcomes: the lookup or a
\* delete of a cascade-delete field, or the updateMany of a cascade-update
\* field the body carries
CascadeFaults(o, d, structure, outcomes) ==
    /\ structure.present /\ structure.hasRelations
    /\ \/ /\ o = "delete"
          /\ \E i \in 1..Len(structure.cascadeDelete) :
                LET out == outcomes[structure.cascadeDelete[i]]
                IN  out.found < 0 \/ out.failAt # 0
       \/ /\ o = "update"
          /\ \E i \in 1..Len(structure.cascadeUpdate) :
                /\ Get(d, structure.cascadeUpdate[i]) # Undefined
                /\ outcomes[structure.cascadeUpdate[i]].updateMany = "throw"

\* C16: a failure inside the cascade pass never blocks the primary
\* operation: a cascade lookup or cascade write that throws makes the result
\* a warning, the handler goes on to the primary delete / update, and when
\* nothing else fails the request ends with a success status (200 / 204).
C16_CascadeNeverBlocks ==
    /\ (pc = "cascade" /\ awaiting) =>
          \A outcomes \in CascadeOutcomes :
              LET structure == analyzeDatabaseStructure(dbStructure, sampleCache)
                  cascadeResult == handleCascadeOperations(op, data, structure, outcomes)
              IN  CascadeFaults(op, data, structure, outcomes) =>
                      /\ ~cascadeResult.success
                      /\ ~cascadeRejects(cascadeResult)
    /\ warnings # <<>> =>
          /\ op \in {"update", "delete"}
          /\ pc = "write" \/ Started("write")
    /\ (warnings # <<>> /\ Started("write") /\ ~(pc = "write" /\ awaiting)) =>
          \E i \in 1..Len(calls) : calls[i].fn = op /\ calls[i].target = "model"
    /\ (warnings # <<>> /\ pc = "done" /\ ~err.thrown) =>
          /\ resp.statusCode \in {200, 204}
          /\ resp.headers["X-Response-Type"] = "ok"

\* C16 witness: a delete whose cascade pass failed was answered with 204
C16_Witness ==
    /\ pc = "done" /\ op = "delete" /\ ~err.thrown
    /\ \E i \in 1..Len(warnings) : warnings[i].error
    /\ Started("cascade") /\ Started("write")
    /\ resp.statusCode = 204

\* exception texts a failing request may carry
ErrorTexts == {"Hook failed", "Database error", "connect ECONNREFUSED 10.0.0.5:5432"}

\* C19: with the default error handling in non-verbose mode the body of the
\* error response is the same whatever the text of the exception: the
\* request's body equals the one any other exception text would have given.
\* In verbose mode an exception without a code surfaces its own text.
C19_MessageConfinement ==
    (pc = "done" /\ err.thrown /\ ~cfg.errorHandler) =>
        /\ ~cfg.isDev =>
              \A t \in ErrorTexts :
                  handleError([err EXCEPT !.message = t], MethodOf(op), cfg).body = resp.body
        /\ (cfg.isDev /\ err.code = "" /\ err.message # "") =>
              resp.body = PlainBody([k \in {"message"} |-> Str(err.message)])

\* C19 witness: a non-verbose route answered a failed write without the
\* engine's text
C19_Witness ==
    /\ pc = "done" /\ err.thrown /\ ~cfg.errorHandler /\ ~cfg.isDev
    /\ err.message = "Database error"
    /\ ~resp.body.encoded
    /\ resp.body.props["message"] # Str(err.message)

\* C19 witness in verbose mode: the engine's text is in the body
C19_WitnessVerbose ==
    /\ pc = "done" /\ err.thrown /\ ~cfg.errorHandler /\ cfg.isDev
    /\ err = Error("", "Database error")
    /\ resp.body.props["message"] = Str("Database error")

\* C21 (as claimed): whenever beforeDestroy returns a value other than
\* undefined the delete is short-circuited: neither the cascade pass nor
\* model.delete is invoked and the substitute is the response payload unless
\* afterDestroy replaces it; the cascade pass and the delete run only when the
\* hook returned undefined or is absent.
C21_SubstituteShortCircuits ==
    op = "delete" =>
        /\ pc \in {"cascade", "write"} => result = UndefinedData
        /\ (Started("cascade") \/ Started("write")) => result \notin DestroySubstitutes
        /\ (Succeeded /\ ~Started("write")) => result \in DestroySubstitutes \cup AfterRewrites

\* C23 (as claimed): a delete or update request that ends in an error
\* response leaves the stored rows unchanged: no row has been deleted or
\* modified by that request, the cascade pass that runs before the primary
\* write included.
C23_ErrorLeavesRowsUnchanged ==
    (pc = "done" /\ err.thrown /\ op \in {"update", "delete"}) => changed = {}

\* the field set a list request arriving now would filter with
ListFields == ValidFields(analyzeDatabaseStructure(dbStructure, sampleCache))

\* C24 (as claimed): in whatever order list requests and create / update /
\* delete requests first touch the model, once a sample record is available
\* the field set used to filter later list requests is the sample's field set.
C24_SampleFieldSetUsed ==
    sampleCache # NoSample =>
        ListFields = {sampleCache[i] : i \in 1..Len(sampleCache)}
-----------------------------------------------------------------------------
(* The list and get-by-id handlers of one registered route                  *)

\* what an error handler override may do: return the test's response, one
\* without a statusCode (0 stands for the missing property) or one built
\* with the formatter, throw, or return undefined
OverrideResults ==
    { CustomErrorResponse,
      [body |-> PlainBody([k \in {"error"} |-> Str("Custom error")]),
       headers |-> <<>>, statusCode |-> 0],
      error("get", NullData, "Custom error", 422, FALSE, FALSE),
      OverrideThrew,
      OverrideUndefined }

ReadConfigs ==
    {c \in [hasBefore : BOOLEAN, hasValidation : {FALSE}, hasAfter : BOOLEAN,
            enableConstraintChecking : {FALSE}, enableCascadeHandling : {FALSE},
            autoDetectRelations : {FALSE}, errorHandler : BOOLEAN, isDev : BOOLEAN,
            encryptionValue : {FALSE}, errorResponse : OverrideResults \cup {NoResponse}] :
        c.errorHandler <=> c.errorResponse # NoResponse}

\* what the handler passed to setGlobalErrorHandler returns
GlobalErrorResponse(method, c) ==
    error(method, NullData, "Server error", 500, c.isDev, c.encryptionValue)

Filters ==
    { Node(<<>>),
      Node([title |-> Leaf("string", "T")]),
      Node([title |-> Node([contains |-> Leaf("string", "T")])]),
      Node([OR |-> ListOf(<<Node([title |-> Leaf("string", "T")]),
                            Node([role |-> Leaf("string", "admin")])>>)]),
      Node([password |-> Leaf("string", "x"), email |-> Leaf("string", "a@x.com")]) }

Orders ==
    { Absent,
      Node([title |-> Leaf("string", "asc")]),
      ListOf(<<Node([email |-> Leaf("string", "desc")])>>) }

\* include parameters: a foreign key of the schema, and a relation the model
\* does not know next to a plain field
Includes ==
    { Node([authorId |-> Leaf("boolean", "true")]),
      Node([comments |-> Leaf("boolean", "true"), title |-> Leaf("boolean", "true")]) }

Selects ==
    { Absent,
      ListOf(<<Leaf("string", "title"), Leaf("string", "password")>>) }

\* the parsed query strings of list requests; a malformed one makes
\* JSON.parse throw
Queries ==
    [kind : {"list"}, filter : Filters, orderBy : {Absent}, select : {Absent},
     include : {Absent}]
    \cup [kind : {"list"}, filter : {Node([title |-> Leaf("string", "T")])},
          orderBy : Orders, select : Selects, include : {Absent}]
    \cup [kind : {"list"}, filter : {Node(<<>>)}, orderBy : {Absent}, select : Selects,
          include : Includes]
    \cup {[kind |-> "malformed", filter |-> Absent, orderBy |-> Absent, select |-> Absent,
           include |-> Absent]}

\* what beforeActions.get may return in place of the query
QueryRewrites ==
    {[kind |-> "list", filter |-> Node([email |-> Leaf("string", "a@x.com")]),
      orderBy |-> Absent, select |-> Absent, include |-> Absent]}

\* the rows findMany returns and the number count returns
ListRows == {Arr("rows:1,2"), Arr("rows:1,-,3"), Arr("rows:-"), Arr("rows:")}
ListCount == Num("3")

\* the row findUnique returns
GetRows ==
    { ObjData([id |-> Num("1"), title |-> Str("T")]),
      ObjData([title |-> Str("T")]),
      ObjData([id |-> Num("7"), data |-> Obj("row:2")]) }

\* what an after hook may return in place of the result
AfterGetRewrites(o) ==
    IF o = "list" THEN {ObjData([data |-> Arr("rows:1,2"), count |-> Num("2")])}
    ELSE {ObjData([id |-> Num("1"), extra |-> Bool(TRUE)])}

\* the awaited steps of the two handlers
ReadSteps == {"before", "sample", "findMany", "count", "findUnique", "after"}

ReadInit ==
    /\ cfg \in ReadConfigs
    /\ dbStructure \in InitialStructures
    /\ sampleCache = NoSample
    /\ pc = "idle"
    /\ awaiting = FALSE
    /\ op = "none"
    /\ data = NullData
    /\ result = UndefinedData
    /\ valid = "none"
    /\ viol = <<>>
    /\ warnings = <<>>
    /\ trace = <<>>
    /\ calls = <<>>
    /\ outstanding = 0
    /\ err = NoError
    /\ resp = NoResponse
    /\ served = 0
    /\ changed = {}
    /\ ReadIdle
    /\ RegIdle
    /\ CacheIdle
    /\ FmtIdle
    /\ CcIdle
    /\ RaceIdle

\* router.setGlobalErrorHandler(h)
SetGlobalErrorHandler ==
    /\ pc = "idle" /\ ~globalErrorHandler
    /\ globalErrorHandler' = TRUE
    /\ UNCHANGED <<regVars, cacheVars, routeVars, query, findArgs, fmtVars, ccVars, raceVars>>

\* the query is parsed: JSON.parse throws on a malformed parameter
Parse(q) ==
    IF q.kind = "malformed"
    THEN Throw(Error("", "Unexpected token } in JSON"))
    ELSE pc' = "sample" /\ UNCHANGED err

\* a list request enters its handler
ReceiveList(q) ==
    /\ pc = "idle" /\ served < MaxRequests
    /\ op' = "list"
    /\ query' = q
    /\ IF cfg.hasBefore THEN pc' = "before" /\ UNCHANGED err ELSE Parse(q)
    /\ UNCHANGED <<changed, regVars, cacheVars, cfg, dbStructure, sampleCache, awaiting, data, result, valid, viol,
                   warnings, trace, calls, outstanding, resp, served, findArgs,
                   globalErrorHandler, fmtVars, ccVars, raceVars>>

\* a get-by-id request enters its handler and has the structure analyzed
ReceiveGetById ==
    /\ pc = "idle" /\ served < MaxRequests
    /\ op' = "getById"
    /\ dbStructure' = analyzeDatabaseStructure(dbStructure, sampleCache)
    /\ pc' = "findUnique"
    /\ UNCHANGED <<changed, regVars, cacheVars, cfg, sampleCache, awaiting, data, result, valid, viol, warnings, trace,
                   calls, outstanding, err, resp, served, readVars, fmtVars, ccVars,
                   raceVars>>

\* the persistence calls a step issues when it starts
readCalls(step, listed, cached) ==
    CASE step = "sample" ->
            (IF cached = NoSample THEN <<Call("findFirst", "model", {})>> ELSE <<>>)
      [] step = "findMany" ->
            <<Call("findMany", "model", {})>>
            \o (IF listed.advanced THEN <<>> ELSE <<Call("count", "model", {})>>)
      [] step = "count" -> <<Call("count", "model", {})>>
      [] step = "findUnique" -> <<Call("findUnique", "model", {})>>
      [] OTHER -> <<>>

\* the handler calls the hook or persistence method of step pc and suspends
\* in its await; without an advanced parameter findMany and count are
\* started together (Promise.all)
StartRead ==
    /\ pc \in ReadSteps /\ ~awaiting
    /\ LET listed == listCalls(query, dbStructure)
           both == pc = "findMany" /\ ~listed.advanced
       IN  /\ awaiting' = TRUE
           /\ outstanding' = outstanding + (IF both THEN 2 ELSE 1)
           /\ trace' = trace \o <<"start:" \o pc>>
                             \o (IF both THEN <<"start:count">> ELSE <<>>)
           /\ calls' = calls \o readCalls(pc, listed, sampleCache)
           /\ findArgs' = CASE pc = "findMany" ->
                                 findArgs \o <<listed.findMany>>
                                          \o (IF both THEN <<listed.count>> ELSE <<>>)
                            [] pc = "count" -> findArgs \o <<listed.count>>
                            [] OTHER -> findArgs
    /\ UNCHANGED <<changed, regVars, cacheVars, cfg, dbStructure, sampleCache, pc, op, data, result, valid, viol,
                   warnings, err, resp, served, query, globalErrorHandler, fmtVars,
                   ccVars, raceVars>>

\* the awaited call of a step has settled
SettleRead(step) ==
    /\ pc = step /\ awaiting
    /\ awaiting' = FALSE
    /\ outstanding' = outstanding - 1
    /\ trace' = Append(trace, "end:" \o step)

\* beforeActions.get returns or throws, then the query is parsed
ReturnBeforeGet ==
    /\ SettleRead("before")
    /\ \/ Throw(HookError) /\ UNCHANGED query
       \/ \E q \in {query} \cup QueryRewrites :
            /\ query' = q
            /\ Parse(q)
    /\ UNCHANGED <<changed, regVars, cacheVars, cfg, dbStructure, sampleCache, op, data, result, valid, viol, warnings,
                   calls, resp, served, findArgs, globalErrorHandler, fmtVars, ccVars,
                   raceVars>>

\* cacheSampleRecord returns (a throw of findFirst is swallowed), then
\* analyzeDatabaseStructure returns the model's structure
ReturnSample ==
    /\ SettleRead("sample")
    /\ \E found \in {"row", "null", "throw"} :
          sampleCache' = IF sampleCache = NoSample /\ found = "row" THEN SampleKeys
                         ELSE sampleCache
    /\ dbStructure' = analyzeDatabaseStructure(dbStructure, sampleCache')
    /\ pc' = "findMany"
    /\ UNCHANGED <<changed, regVars, cacheVars, cfg, op, data, result, valid, viol, warnings, calls, err, resp, served,
                   readVars, fmtVars, ccVars, raceVars>>

\* model.findMany returns rows or throws
ReturnFindMany ==
    /\ pc = "findMany" /\ awaiting
    /\ outstanding' = outstanding - 1
    /\ trace' = Append(trace, "end:findMany")
    /\ \/ /\ \E e \in EngineErrors : Throw(e)
          /\ awaiting' = FALSE
          /\ UNCHANGED result
       \/ /\ \E rows \in ListRows : result' = ObjData([data |-> rows])
          /\ pc' = "count"
          /\ awaiting' = (outstanding' > 0)
          /\ UNCHANGED err
    /\ UNCHANGED <<changed, regVars, cacheVars, cfg, dbStructure, sampleCache, op, data, valid, viol, warnings, calls,
                   resp, served, readVars, fmtVars, ccVars, raceVars>>

\* model.count returns or throws
ReturnCount ==
    /\ SettleRead("count")
    /\ \/ /\ \E e \in EngineErrors : Throw(e)
          /\ UNCHANGED result
       \/ /\ result' = ObjData([k \in {"data", "count"} |->
                                   IF k = "data" THEN result.props["data"] ELSE ListCount])
          /\ pc' = IF cfg.hasAfter THEN "after" ELSE "respond"
          /\ UNCHANGED err
    /\ UNCHANGED <<changed, regVars, cacheVars, cfg, dbStructure, sampleCache, op, data, valid, viol, warnings, calls,
                   resp, served, readVars, fmtVars, ccVars, raceVars>>

\* model.findUnique returns a row, returns nothing or throws
ReturnFindUnique ==
    /\ SettleRead("findUnique")
    /\ \/ /\ \E e \in EngineErrors : Throw(e)
          /\ UNCHANGED result
       \/ /\ Throw(Error("P2025", "Record not found"))
          /\ result' = NullData
       \/ /\ result' \in GetRows
          /\ pc' = IF cfg.hasAfter THEN "after" ELSE "respond"
          /\ UNCHANGED err
    /\ UNCHANGED <<changed, regVars, cacheVars, cfg, dbStructure, sampleCache, op, data, valid, viol, warnings, calls,
                   resp, served, readVars, fmtVars, ccVars, raceVars>>

\* afterActions.get / afterActions.getById returns or throws
ReturnAfterGet ==
    /\ SettleRead("after")
    /\ \/ /\ Throw(HookError)
          /\ UNCHANGED result
       \/ /\ result' \in {result} \cup AfterGetRewrites(op)
          /\ pc' = "respond"
          /\ UNCHANGED err
    /\ UNCHANGED <<changed, regVars, cacheVars, cfg, dbStructure, sampleCache, op, data, valid, viol, warnings, calls,
                   resp, served, readVars, fmtVars, ccVars, raceVars>>

\* the request is over; its locals are gone, the analyzer's caches and the
\* router's fields stay
FinishRead ==
    /\ pc = "done"
    /\ served' = served + 1
    /\ pc' = "idle"
    /\ op' = "none"
    /\ result' = UndefinedData
    /\ trace' = <<>>
    /\ calls' = <<>>
    /\ err' = NoError
    /\ resp' = NoResponse
    /\ query' = NoQuery
    /\ findArgs' = <<>>
    /\ UNCHANGED <<changed, regVars, cacheVars, cfg, dbStructure, sampleCache, awaiting, data, valid, viol, warnings,
                   outstanding, globalErrorHandler, fmtVars, ccVars, raceVars>>

ReadNext ==
    \/ SetGlobalErrorHandler
    \/ \E q \in Queries : ReceiveList(q)
    \/ ReceiveGetById
    \/ StartRead
    \/ ReturnBeforeGet
    \/ ReturnSample
    \/ ReturnFindMany
    \/ ReturnCount
    \/ ReturnFindUnique
    \/ ReturnAfterGet
    \/ Respond
    \/ Catch
    \/ FinishRead

SpecRead == ReadInit /\ [][ReadNext]_vars

\* the handlers under a scheduler that runs every continuation that is ready
\* and with hooks and engine calls that all return or throw
SpecReadLive == ReadInit /\ [][ReadNext]_vars /\ WF_vars(ReadNext)
-----------------------------------------------------------------------------
(* Properties of the list and get-by-id handlers                            *)

StartedRead(step) == \E i \in 1..Len(trace) : trace[i] = "start:" \o step

\* the request was answered with its success response
Answered == pc = "done" /\ ~err.thrown

\* C11 (as claimed): a response that returns a single resource with an id
\* carries X-Resource-ID with that id; one that returns an array carries
\* X-Resource-IDs with the comma-joined ids of the elements that have one; a
\* resource without an id gets no resource-id header.
C11_ResourceIdHeaders ==
    (Answered /\ op \in {"list", "getById"} /\ Truthy(result)) =>
        IF op = "getById"
        THEN /\ Header(resp, "X-Resource-IDs") = "unset"
             /\ Header(resp, "X-Resource-ID") =
                    IF Get(result, "id") # Undefined THEN Get(result, "id").v
                    ELSE "unset"
        ELSE LET rows == Get(result, "data")
                 ids == joinIds(ItemIds(rows.v))
             IN  rows.kind = "array" =>
                    /\ Header(resp, "X-Resource-ID") = "unset"
                    /\ Header(resp, "X-Resource-IDs") = IF ids # "" THEN ids ELSE "unset"

\* C13 (as claimed): when introspection produced no known field for the
\* model, the list handler passes the parsed filter and ordering on as they
\* are: where of findMany and count is the filter parameter and orderBy of
\* findMany the requested ordering.
C13_DegradedPassThrough ==
    (op = "list" /\ query.kind = "list" /\ dbStructure.fields = <<>>) =>
        \A i \in 1..Len(findArgs) :
            /\ findArgs[i].where = query.filter
            /\ findArgs[i].fn = "findMany" => findArgs[i].orderBy = query.orderBy

\* C14 (as claimed): in every list request count() is started before
\* findMany() has completed, and no other two persistence calls are ever
\* outstanding together.
C14_ListCountConcurrent ==
    /\ op = "list" =>
          \A j \in 1..Len(trace) :
              trace[j] = "end:findMany" =>
                  \E i \in 1..(j - 1) : trace[i] = "start:count"
    /\ outstanding <= 2
    /\ outstanding = 2 => op = "list" /\ pc = "findMany"

\* C15 (as claimed): a get-by-id whose lookup returns no row is answered
\* with an error response flagged error: true and a not-found status, and the
\* after hook is not run.
C15_NotFoundIsError ==
    (op = "getById" /\ pc = "done" /\ result = NullData /\ ~cfg.errorHandler) =>
        /\ err = Error("P2025", "Record not found")
        /\ ~StartedRead("after")
        /\ Header(resp, "X-Response-Type") = "error"
        /\ resp.statusCode = 404
        /\ Get([kind |-> "object", props |-> resp.body.props], "error") = Bool(TRUE)

C18_GlobalHandlerUsed ==
    (globalErrorHandler /\ ~cfg.errorHandler /\ pc = "done" /\ err.thrown) =>
        /\ resp.body = GlobalErrorResponse(MethodOf(op), cfg).body
        /\ resp.statusCode = GlobalErrorResponse(MethodOf(op), cfg).statusCode

\* C26 (as claimed): every request that enters a standard handler eventually
\* receives exactly one response, the success response or a formatted error
\* response, provided each hook and engine call it awaits returns or throws;
\* also on a route with an error handler of its own, whatever that handler
\* returns or throws.
C26_EveryRequestAnswered == [](pc # "idle" => <>(pc = "done" /\ resp # NoResponse))

\* the keys of the include parameter that name a known field or a foreign key
IncludableKeys ==
    DOMAIN query.include.props
        \cap (FilteredFields(dbStructure)
              \cup {dbStructure.foreignKeys[i].field : i \in 1..Len(dbStructure.foreignKeys)})

\* C29 (as claimed): in a list request selection and inclusion are mutually
\* exclusive and selection wins only when the request supplies one: findMany
\* is never called with both select and include, a request that supplies
\* select has its include ignored, and a request that supplies include but
\* no select has the requested inclusion, for the keys that are known fields
\* or foreign keys, passed to findMany.
C29_SelectIncludeExclusive ==
    (op = "list" /\ query.kind = "list") =>
        \A i \in 1..Len(findArgs) :
            findArgs[i].fn = "findMany" =>
                /\ ~(TruthyJson(findArgs[i].select) /\ TruthyJson(findArgs[i].include))
                /\ TruthyJson(query.select) => ~TruthyJson(findArgs[i].include)
                /\ (~TruthyJson(query.select) /\ TruthyJson(query.include)
                        /\ IncludableKeys # {}) =>
                      findArgs[i].include =
                          Node([k \in IncludableKeys |-> query.include.props[k]])

RECURSIVE FieldKeys(_)
\* the keys of a filter that name fields: every key that is not AND / OR /
\* NOT, at the top level and in the filters nested under those operators
FieldKeys(where) ==
    IF where.kind \notin {"object", "array"} THEN {}
    ELSE UNION {IF where.kind = "array" \/ k \in LOGICALS
                THEN FieldKeys(where.props[k]) ELSE {k} : k \in DOMAIN where.props}

\* C30 (as claimed): for every list filter whose field keys are all known,
\* non-excluded fields of the model, the where clause passed to findMany and
\* count equals the parsed filter, nested operator objects under a field
\* (such as {title: {contains: v}}) and filters nested under AND / OR / NOT
\* included; only keys naming unknown or excluded fields are removed.
C30_KnownFilterPreserved ==
    (op = "list" /\ query.kind = "list"
        /\ FieldKeys(query.filter) \subseteq FilteredFields(dbStructure)) =>
        \A i \in 1..Len(findArgs) : findArgs[i].where = query.filter
-----------------------------------------------------------------------------
(* Concurrent create and update requests on one route                       *)

\* requests in flight at the same time
MaxClients == 2

Clients == 1..MaxClients

\* values of the unique field the requests carry
Emails == {"a@x.com", "b@x.com"}

\* the body of a create or update request carrying e in the unique field
RaceBody(e) == ObjData([title |-> Str("T"), email |-> Str(e)])

\* the route the requests go to: constraint checking on, no hooks
RaceConfig ==
    [NoConfig EXCEPT !.enableConstraintChecking = TRUE, !.autoDetectRelations = TRUE]

\* a request that has not arrived yet
NoRequest ==
    [pc |-> "idle", op |-> "none", target |-> 0, email |-> "", found |-> "none",
     seen |-> {}, others |-> {}, viol |-> <<>>, statusCode |-> 0]

\* the values of the unique field in the rows written so far
Written == {table[i] : i \in 1..Len(table)}

RaceInit ==
    /\ reqs = [i \in Clients |-> NoRequest]
    /\ table \in {<<>>, <<"b@x.com">>}
    /\ cfg = RaceConfig
    /\ dbStructure = BuildStructure(SchemaFields)
    /\ sampleCache = NoSample
    /\ pc = "idle"
    /\ awaiting = FALSE
    /\ op = "none"
    /\ data = NullData
    /\ result = UndefinedData
    /\ valid = "none"
    /\ viol = <<>>
    /\ warnings = <<>>
    /\ trace = <<>>
    /\ calls = <<>>
    /\ outstanding = 0
    /\ err = NoError
    /\ resp = NoResponse
    /\ served = 0
    /\ changed = {}
    /\ ReadIdle
    /\ RegIdle
    /\ CacheIdle
    /\ FmtIdle
    /\ CcIdle

\* the values of the unique field in the rows other than row t
OtherRows(t) == {table[j] : j \in (1..Len(table)) \ {t}}

\* request i enters the create handler, or the update handler for the row
\* at position t, and calls checkConstraints, which issues the uniqueness
\* lookup and suspends
RaceReceive(i, o, t, e) ==
    /\ reqs[i].pc = "idle"
    /\ reqs' = [reqs EXCEPT ![i].pc = "lookup", ![i].op = o, ![i].target = t,
                            ![i].email = e]
    /\ outstanding' = outstanding + 1
    /\ UNCHANGED <<changed, regVars, cacheVars, table, cfg, dbStructure, sampleCache, pc, awaiting, op, data, result,
                   valid, viol, warnings, trace, calls, err, resp, served, readVars,
                   fmtVars, ccVars>>

\* the lookup of request i returns what the engine holds at that moment (or
\* throws) and checkConstraints returns; a violation makes the handler throw
\* and answer with the error response
RaceReturnLookup(i) ==
    /\ reqs[i].pc = "lookup"
    /\ outstanding' = outstanding - 1
    /\ \E found \in {IF reqs[i].email \in Written THEN "row" ELSE "null", "throw"} :
          LET lookups == [findFirst |-> [f \in {"email"} |-> found], registry |-> {},
                          findUnique |-> [f \in {"authorId"} |-> "null"]]
              constraintCheck == checkConstraints(reqs[i].op, RaceBody(reqs[i].email),
                                                  dbStructure, lookups)
              e == Error("", "Constraint violations: " \o join(constraintCheck.violations))
          IN  reqs' = [reqs EXCEPT
                          ![i].found = found,
                          ![i].seen = Written,
                          ![i].others = OtherRows(reqs[i].target),
                          ![i].viol = constraintCheck.violations,
                          ![i].pc = IF constraintRejects(constraintCheck)
                                    THEN "rejected" ELSE "write",
                          ![i].statusCode =
                              IF constraintRejects(constraintCheck)
                              THEN handleError(e, MethodOf(reqs[i].op), cfg).statusCode
                              ELSE 0]
    /\ UNCHANGED <<changed, regVars, cacheVars, table, cfg, dbStructure, sampleCache, pc, awaiting, op, data, result,
                   valid, viol, warnings, trace, calls, err, resp, served, readVars,
                   fmtVars, ccVars>>

\* request i calls model.create / model.update and suspends
RaceStartWrite(i) ==
    /\ reqs[i].pc = "write"
    /\ reqs' = [reqs EXCEPT ![i].pc = "writing"]
    /\ outstanding' = outstanding + 1
    /\ calls' = calls \o writeCalls(reqs[i].op, RaceBody(reqs[i].email), cfg)
    /\ UNCHANGED <<changed, regVars, cacheVars, table, cfg, dbStructure, sampleCache, pc, awaiting, op, data, result,
                   valid, viol, warnings, trace, err, resp, served, readVars, fmtVars,
                   ccVars>>

\* model.create / model.update of request i completes: the row is written
\* and the request answered with 201 (create) or 200, or the engine refuses
\* a duplicate (if it holds a unique index) and the request is answered with
\* the error response
RaceReturnWrite(i) ==
    /\ reqs[i].pc = "writing"
    /\ outstanding' = outstanding - 1
    /\ \/ /\ table' = IF reqs[i].op = "create" THEN Append(table, reqs[i].email)
                       ELSE [table EXCEPT ![reqs[i].target] = reqs[i].email]
          /\ reqs' = [reqs EXCEPT ![i].pc = "created",
                                  ![i].statusCode = IF reqs[i].op = "create" THEN 201
                                                    ELSE 200]
       \/ /\ reqs[i].email \in OtherRows(reqs[i].target)
          /\ reqs' = [reqs EXCEPT
                         ![i].pc = "failed",
                         ![i].statusCode =
                             handleError(Error("P2002", "Unique constraint failed"),
                                         MethodOf(reqs[i].op), cfg).statusCode]
          /\ UNCHANGED table
    /\ UNCHANGED <<changed, regVars, cacheVars, cfg, dbStructure, sampleCache, pc, awaiting, op, data, result, valid,
                   viol, warnings, trace, calls, err, resp, served, readVars, fmtVars,
                   ccVars>>

RaceNext ==
    \E i \in Clients :
        \/ \E e \in Emails : RaceReceive(i, "create", 0, e)
        \/ \E t \in 1..Len(table), e \in Emails : RaceReceive(i, "update", t, e)
        \/ RaceReturnLookup(i)
        \/ RaceStartWrite(i)
        \/ RaceReturnWrite(i)

SpecRace == RaceInit /\ [][RaceNext]_vars

\* request i is past its uniqueness lookup
Looked(i) == reqs[i].pc \in {"rejected", "write", "writing", "created", "failed"}

\* C20: the uniqueness check is advisory and race-prone.  A request is
\* refused by the check exactly when its own lookup returned a row, that is
\* when a row with its value had been written before the lookup returned;
\* nothing written or pending afterwards is consulted, so two requests with
\* the same value whose lookups both return before either write completes
\* both go on to model.create.
C20_UniquenessCheckAdvisory ==
    \A i \in Clients :
        /\ Looked(i) =>
              /\ (reqs[i].pc = "rejected") <=> (reqs[i].found = "row")
              /\ (reqs[i].found = "row") => reqs[i].email \in reqs[i].seen
              /\ (reqs[i].found = "null") => reqs[i].email \notin reqs[i].seen
        /\ \A j \in Clients \ {i} :
              (/\ reqs[i].pc = "write" /\ reqs[j].pc \in {"write", "writing"}
               /\ reqs[i].email = reqs[j].email)
                  => ENABLED RaceStartWrite(i)

\* C20 witness: two requests with the same value have both passed their
\* lookups with no matching row and both creates are outstanding
C20_Witness ==
    /\ reqs[1].pc = "writing" /\ reqs[2].pc = "writing"
    /\ reqs[1].email = reqs[2].email
    /\ reqs[1].found = "null" /\ reqs[2].found = "null"
    /\ reqs[1].email \notin Written
    /\ outstanding = 2

\* C20 witness of the outcome: both creates completed and two rows carry
\* the same value
C20_WitnessDuplicate ==
    /\ reqs[1].pc = "created" /\ reqs[2].pc = "created"
    /\ reqs[1].email = reqs[2].email
    /\ reqs[1].found = "null" /\ reqs[2].found = "null"

\* C28 (as claimed): an update that re-submits the target record's own
\* current value for a unique field is not rejected by the uniqueness check:
\* a uniqueness violation is reported only when a row other than the record
\* being updated holds that value.
C28_OwnValueNotRejected ==
    \A i \in Clients :
        (reqs[i].op = "update" /\ reqs[i].pc = "rejected") =>
            reqs[i].email \in reqs[i].others
-----------------------------------------------------------------------------
(* route(): the middleware chain of each registration                       *)

\* routes registered in one run
MaxRoutes == 1

\* router-global middleware added in one run
MaxGlobal == 2

\* a middleware function or a handler: where it was configured and its name
Fn(origin, name) == [origin |-> origin, name |-> name]

\* the standard operations in the order route() registers them: the name
\* isExcluded is asked about, the app method, and the composeMiddleware type
StandardOperations ==
    << [label |-> "get", verb |-> "get", type |-> "get", byId |-> FALSE],
       [label |-> "getById", verb |-> "get", type |-> "getById", byId |-> TRUE],
       [label |-> "post", verb |-> "post", type |-> "create", byId |-> FALSE],
       [label |-> "put", verb |-> "put", type |-> "update", byId |-> TRUE],
       [label |-> "delete", verb |-> "delete", type |-> "delete", byId |-> TRUE] >>

\* routeOptions.middleware in its two forms: an array, or an object with the
\* keys default / create / update / delete / get / getById
NoMiddleware == [isArray |-> FALSE, list |-> <<>>, byType |-> <<>>]
MiddlewareArray(list) == [isArray |-> TRUE, list |-> list, byType |-> <<>>]
MiddlewareObject(byType) == [isArray |-> FALSE, list |-> <<>>, byType |-> byType]

\* Array.isArray(middleware) ? { default: middleware } : (middleware || {})
middlewareObjOf(middleware) ==
    IF middleware.isArray THEN [k \in {"default"} |-> middleware.list]
    ELSE middleware.byType

\* middlewareObj[type] || []
OrEmpty(middlewareObj, k) == IF k \in DOMAIN middlewareObj THEN middlewareObj[k] ELSE <<>>

composeMiddleware_AuthFirst(type, globals, options) ==
    (IF options.authMiddleware THEN <<Fn("auth", "authMiddleware")>> ELSE <<>>)
    \o globals
    \o OrEmpty(middlewareObjOf(options.middleware), "default")
    \o OrEmpty(middlewareObjOf(options.middleware), type)

\* composeMiddleware(type) inside route(), with this.options.defaultMiddleware
\* as it is when the route is registered
composeMiddleware(type, globals, options) ==
    globals
    \o OrEmpty(middlewareObjOf(options.middleware), "default")
    \o OrEmpty(middlewareObjOf(options.middleware), type)
    \o (IF options.authMiddleware THEN <<Fn("auth", "authMiddleware")>> ELSE <<>>)

\* excludeRoute.map(m => m.toLowerCase()).includes(method.toLowerCase())
isExcluded(method, options) == method \in options.excludeRoute

\* one app.get / app.post / app.put / app.delete call: the functions passed
\* after the path, in argument order
Registration(path, verb, type, standard, chain) ==
    [path |-> path, verb |-> verb, type |-> type, standard |-> standard, chain |-> chain]

RECURSIVE registerStandard(_, _, _, _)
\* the five guarded registrations of route(), from operation i on
registerStandard(i, path, globals, options) ==
    IF i > Len(StandardOperations) THEN <<>>
    ELSE LET o == StandardOperations[i]
             rest == registerStandard(i + 1, path, globals, options)
         IN  IF isExcluded(o.label, options) THEN rest
             ELSE <<Registration(path, o.verb, o.type, TRUE,
                                 composeMiddleware(o.type, globals, options)
                                 \o <<Fn("handler", o.type)>>)>> \o rest

\* the customActions loop: the handler of each allowed method is registered
\* on routePath behind composeMiddleware(methodLower)
registerCustom(path, globals, options) ==
    IF options.customAction = "none" THEN <<>>
    ELSE <<Registration(path, options.customAction, options.customAction, FALSE,
                        composeMiddleware(options.customAction, globals, options)
                        \o <<Fn("custom", options.customAction)>>)>>

GlobalMiddlewares == <<Fn("global", "g1"), Fn("global", "g2"), Fn("global", "g3")>>

RouteMiddlewares ==
    { NoMiddleware,
      MiddlewareArray(<<Fn("default", "m1")>>),
      MiddlewareObject([default |-> <<Fn("default", "m1"), Fn("default", "m2")>>,
                        create |-> <<Fn("type", "create")>>]),
      MiddlewareObject([get |-> <<Fn("type", "get")>>, getById |-> <<Fn("type", "getById")>>,
                        update |-> <<Fn("type", "update")>>,
                        delete |-> <<Fn("type", "delete")>>]) }

RouteOptions ==
    [middleware : RouteMiddlewares, authMiddleware : BOOLEAN,
     excludeRoute : {{}, {"post", "put", "delete"}, {"get", "getById"}},
     customAction : {"none", "get", "patch"}]

RoutePaths == <<"/users", "/posts", "/tags">>

ComposeInit ==
    /\ defaultMiddleware \in {<<>>, <<Fn("global", "g0")>>}
    /\ registered = <<>>
    /\ handles = <<>> /\ structures = <<>> /\ samples = <<>> /\ analyzed = <<>>
    /\ RouteIdle
    /\ ReadIdle
    /\ FmtIdle
    /\ CcIdle
    /\ RaceIdle

\* the number of route() calls made so far
Routes == Cardinality({registered[i].path : i \in 1..Len(registered)})

\* router.addGlobalMiddleware(middleware)
addGlobalMiddleware ==
    /\ Len(defaultMiddleware) < MaxGlobal
    /\ defaultMiddleware' = Append(defaultMiddleware, GlobalMiddlewares[Len(defaultMiddleware) + 1])
    /\ UNCHANGED <<registered, cacheVars, routeVars, readVars, fmtVars, ccVars, raceVars>>

\* router.route(routePath, model, routeOptions)
route(options) ==
    /\ Routes < MaxRoutes
    /\ LET path == RoutePaths[Routes + 1]
       IN  registered' = registered
                         \o registerStandard(1, path, defaultMiddleware, options)
                         \o registerCustom(path, defaultMiddleware, options)
    /\ UNCHANGED <<defaultMiddleware, cacheVars, routeVars, readVars, fmtVars, ccVars,
                   raceVars>>

ComposeNext ==
    \/ addGlobalMiddleware
    \/ \E options \in RouteOptions : route(options)

SpecCompose == ComposeInit /\ [][ComposeNext]_vars

\* the place of each origin in the order the specification fixes
OriginRank == [global |-> 1, default |-> 2, type |-> 3, auth |-> 4, handler |-> 5]

Count(chain, origin) == Cardinality({i \in 1..Len(chain) : chain[i].origin = origin})

\* C22: for every registered standard operation the chain is router-global
\* middleware, then route-default middleware, then the middleware of that
\* operation, then the authentication middleware if there is one, and last
\* the handler; no handler stands before a middleware of its chain.
C22_MiddlewareOrder ==
    \A r \in 1..Len(registered) :
        LET chain == registered[r].chain
        IN  registered[r].standard =>
              /\ \A i, j \in 1..Len(chain) :
                    i < j => OriginRank[chain[i].origin] <= OriginRank[chain[j].origin]
              /\ chain[Len(chain)] = Fn("handler", registered[r].type)
              /\ Count(chain, "handler") = 1
              /\ Count(chain, "auth") <= 1
              /\ \A i \in 1..Len(chain) :
                    chain[i].origin = "type" => chain[i].name = registered[r].type

\* C22 witness: a create registration whose chain holds a middleware of each
\* origin before the handler
C22_Witness ==
    \E r \in 1..Len(registered) :
        /\ registered[r].standard /\ registered[r].type = "create"
        /\ \A o \in DOMAIN OriginRank : Count(registered[r].chain, o) >= 1
-----------------------------------------------------------------------------
(* DatabaseAnalyzer: the maps dbStructure and _sampleCache, keyed by the    *)
(* name getModelName gives a model handle                                   *)

\* analyzeDatabaseStructure calls recorded in one run
MaxAnalyses == 3

\* the models of the router
ModelKeys == {"user", "post"}

\* a model handle: ctor is model.constructor.name ("" when it has none)
Handle(ctor) == [ctor |-> ctor]

\* the handles a persistence client gives: plain delegate objects, whose
\* constructor is Object, or instances of one class per model
HandleSets ==
    { [k \in ModelKeys |-> Handle("Object")],
      [k \in ModelKeys |-> Handle(IF k = "user" THEN "UserDelegate" ELSE "PostDelegate")],
      [k \in ModelKeys |-> Handle("")] }

\* keys of the row model.findFirst() returns for each model
SampleOf(k) ==
    IF k = "user" THEN <<"id", "email", "name">> ELSE <<"id", "title", "authorId">>

\* getModelName(model)
getModelName(model) == IF model.ctor # "" THEN model.ctor ELSE "Unknown"

\* this._sampleCache[modelName], NoSample when unset
sampleFor(modelName) == IF modelName \in DOMAIN samples THEN samples[modelName] ELSE NoSample

CacheInit ==
    /\ handles \in HandleSets
    /\ structures = <<>>
    /\ samples = <<>>
    /\ analyzed = <<>>
    /\ RegIdle
    /\ RouteIdle
    /\ ReadIdle
    /\ FmtIdle
    /\ CcIdle
    /\ RaceIdle

\* cacheSampleRecord(model): findFirst returns a row (found) or null
cacheSampleRecord(k, found) ==
    /\ LET modelName == getModelName(handles[k])
       IN  samples' = IF modelName \notin DOMAIN samples /\ found
                      THEN (modelName :> SampleOf(k)) @@ samples
                      ELSE samples
    /\ UNCHANGED <<handles, structures, analyzed, regVars, routeVars, readVars, fmtVars,
                   ccVars, raceVars>>

\* analyzeDatabaseStructure(model), as the list handler, checkConstraints and
\* handleCascadeOperations call it
analyzeModel(k) ==
    /\ Len(analyzed) < MaxAnalyses
    /\ LET modelName == getModelName(handles[k])
           structure == IF modelName \in DOMAIN structures THEN structures[modelName]
                        ELSE BuildStructure(getModelMetadata(sampleFor(modelName)))
       IN  /\ structures' = (modelName :> structure) @@ structures
           /\ analyzed' = Append(analyzed, [model |-> k, structure |-> structure])
    /\ UNCHANGED <<handles, samples, regVars, routeVars, readVars, fmtVars, ccVars,
                   raceVars>>

CacheNext ==
    \/ \E k \in ModelKeys, found \in BOOLEAN : cacheSampleRecord(k, found)
    \/ \E k \in ModelKeys : analyzeModel(k)

SpecCache == CacheInit /\ [][CacheNext]_vars

\* C25 (as claimed): the structure cache is keyed per model: for two
\* distinct model handles registered on the same router,
\* analyzeDatabaseStructure returns for each a structure, and a field set,
\* computed from that model itself, never the entry cached for the other
\* model, after any sequence of requests.
C25_CacheKeyedPerModel ==
    \A i \in 1..Len(analyzed) :
        ValidFields(analyzed[i].structure)
            \subseteq {SampleOf(analyzed[i].model)[j] : j \in 1..Len(SampleOf(analyzed[i].model))}
====
